---- MODULE Spec2Model ----
(***************************************************************************)
(* Runtime core of the reactive time-series engine: NodeImpl.eval and the  *)
(* per-node NodeSchedulerImpl (src/hg/_impl/_runtime/_node.py), and the    *)
(* push-queue source node with its _SenderReceiverState.                   *)
(***************************************************************************)
EXTENDS Integers, Sequences, FiniteSets, TLC

\* ------------------------------------------------------------------ bounds
MaxTime == 2
MaxEvents == 2
MaxSends == 3
MaxPairs == 3
MaxTicks == 1
MaxRefTime == 1

\* --------------------------------------------------------------- constants
\* MIN_DT: the sentinel before any real time; engine times are 0..MaxTime.
MinDT == -1
\* MIN_ST: the earliest start time of a run, the first engine time.
MinST == 0
\* MAX_DT: the sentinel after every real time.
MaxDT == MaxTime + 1
Times == 0 .. MaxTime

\* Python's None for a tag argument (schedule(when) / un_schedule()).
NoneTag == "<None>"
\* The tags user code passes; "" is the explicit empty string.
UserTags == {"", "a"}
TagKeys == UserTags \cup {NoneTag}
\* Python's string order on the tags used.
TagOrd(tag) == CASE tag = "" -> 0 [] tag = "a" -> 1 [] OTHER -> 2

\* Names of the node's time-series inputs.
Inputs == {"x", "y"}
\* A time-series value is a 1-tuple; Python's None (no result, no value)
\* is the empty tuple.
None == <<>>
OutValues == {<<"v">>}

VARIABLES
    now,          \* graph.context.current_engine_time
    cfg,          \* the node's signature: time_series_inputs, valid_inputs,
                  \* and whether its function takes the scheduler
    ins,          \* each input's state at `now`: "invalid", "valid", "modified"
    started,      \* NodeImpl.start has run
    hasScheduler, \* NodeImpl._scheduler is not None
    sch,          \* NodeSchedulerImpl: _scheduled_events, _tags
    output,       \* the node's output: its value, and whether it is modified at `now`
    pending,      \* the graph: the times at which the node is scheduled
    evald,        \* the node has been evaluated at `now`
    last,         \* the last call made on the node or its scheduler, and what it did
    \* the push-queue source node (PythonPushQueueNodeImpl, _SenderReceiverState)
    queue,        \* receiver.queue
    stopped,      \* receiver.stopped
    pushPending,  \* the context's push-has-pending-values flag
    lock,         \* the holder of receiver.lock: "free", "engine" or a sender
    spc,          \* each sender thread's position in enqueue
    sval,         \* the value each sender thread is enqueuing
    epc,          \* the engine's position in PythonPushQueueNodeImpl.eval
    held,         \* eval's local `value`
    nsends,       \* sender calls begun so far
    sent,         \* history: the values appended to the queue, in order
    applied,      \* history: the values applied to the output, in order
    nApplied      \* history: values applied by the eval in progress or last ended

\* GeneratorNodeImpl: the iterator (the pairs it has yet to yield),
\* next_value, the pairs the generator function yields in all, and the
\* log of (engine time, value) applied to the output.
VARIABLES generator, next_value, yielded, genApplied

genVars == <<generator, next_value, yielded, genApplied>>

\* The reference engine: the concrete outputs, the REF output (its value
\* and last modified time), its reference observers in registration order,
\* the inputs' bindings and sample times, a REF input, the index a merge
\* node last saw and whether that node is due, and the last call made.
VARIABLES outs, refOutput, reference_observers, bound, sample, refInput,
          index, mergeDue, refOp

refVars == <<outs, refOutput, reference_observers, bound, sample, refInput,
             index, mergeDue, refOp>>

\* PythonTimeSeriesDictOutput: the children by key, the members of the key
\* set, the per-evaluation bookkeeping, the children's last modified
\* times, the keys deleted in the current evaluation (history), the
\* callbacks registered to run after the evaluation, and the last call
\* made on the dict.
VARIABLES ts_values, key_set, removed_items, added_keys, child_lmt, removedNow,
          after_evaluation, tsdOp

tsdVars == <<ts_values, key_set, removed_items, added_keys, child_lmt, removedNow,
             after_evaluation, tsdOp>>

\* PythonTimeSeriesDictInput beside two dict outputs A and B: the outputs
\* (children, the children modified and the keys removed in the current
\* evaluation, how often the input is in _key_observers), the input, the
\* callbacks it registered to run after the evaluation, the last call.
VARIABLES douts, tin, tinCbs, tinOp

tsdInVars == <<douts, tin, tinCbs, tinOp>>

\* The two dicts of references a merge_tsd node reads: the keys each has,
\* how often each key's reference was set, and the keys modified and
\* removed in the current evaluation.
VARIABLES tsd1, tsd2

mergeTsdVars == <<tsd1, tsd2>>

\* create_graph_builder: the wiring graph it is given, its pending_nodes,
\* ranked_nodes, node_map and node_builders, the edges made, and where
\* the call is.
VARIABLES wiring, pending_nodes, ranked_nodes, node_map, node_builders, edges, gbOp

buildVars == <<wiring, pending_nodes, ranked_nodes, node_map, node_builders, edges, gbOp>>

extVars == <<genVars, refVars, tsdVars, tsdInVars, mergeTsdVars, buildVars>>

pushVars == <<queue, stopped, pushPending, lock, spc, sval, epc, held, nsends,
              sent, applied, nApplied>>

vars == <<extVars, now, cfg, ins, started, hasScheduler, sch, output, pending, evald, last,
          pushVars>>

\* ---------------------------------------------------------- SortedList
\* Tuple order of (time, tag) entries.
EntryLess(e, f) == e[1] < f[1] \/ (e[1] = f[1] /\ TagOrd(e[2]) < TagOrd(f[2]))

Contains(s, e) == \E i \in 1 .. Len(s) : s[i] = e

IsSorted(s) == \A i \in 1 .. Len(s) - 1 : ~EntryLess(s[i + 1], s[i])

\* SortedList.add: insert after the entries that are not greater.
SortedAdd(s, e) ==
    LET k == Cardinality({i \in 1 .. Len(s) : ~EntryLess(e, s[i])})
    IN SubSeq(s, 1, k) \o <<e>> \o SubSeq(s, k + 1, Len(s))

\* SortedList.remove of a member: one occurrence goes.
SortedRemove(s, e) ==
    LET i == CHOOSE i \in 1 .. Len(s) : s[i] = e /\ \A j \in 1 .. i - 1 : s[j] # e
    IN SubSeq(s, 1, i - 1) \o SubSeq(s, i + 1, Len(s))

EmptyTags == [k \in {} |-> 0]
EmptySch == [events |-> <<>>, tags |-> EmptyTags]

\* dict item assignment and deletion
DictSet(d, k, v) == [x \in DOMAIN d \cup {k} |-> IF x = k THEN v ELSE d[x]]
DictDel(d, k) == [x \in DOMAIN d \ {k} |-> d[x]]

\* The tag an entry carries: "" if tag is None.
EvTag(tag) == IF tag = NoneTag THEN "" ELSE tag

\* What a scheduler call returns to the model: the scheduler after it, the
\* times passed to graph.schedule_node in order, whether it raised.
Ret(s, calls, raised) == [sch |-> s, calls |-> calls, raised |-> raised]

\* ---------------------------------------------------- NodeSchedulerImpl
next_scheduled_time(s) == IF s.events # <<>> THEN s.events[1][1] ELSE MinDT

is_scheduled_now(s, t) == s.events # <<>> /\ s.events[1][1] = t

\* schedule that leaves the tag's old entry in the list.
schedule_KeepsOldEntry(s, t, when, tag) ==
    LET known == tag # NoneTag /\ tag \in DOMAIN s.tags
        old == <<s.tags[tag], tag>>
    IN IF known /\ ~Contains(s.events, old)
       THEN Ret(s, <<>>, TRUE)
       ELSE IF when > t
            THEN LET current_first == IF s.events # <<>> THEN s.events[1][1] ELSE MaxDT
                     ev2 == SortedAdd(s.events, <<when, EvTag(tag)>>)
                     next == ev2[1][1]
                 IN Ret([events |-> ev2, tags |-> DictSet(s.tags, tag, when)],
                        IF current_first > next THEN <<next>> ELSE <<>>,
                        FALSE)
            ELSE Ret(s, <<>>, FALSE)

\* schedule that notifies the graph also when the new time ties with the head.
schedule_AnnouncesTies(s, t, when, tag) ==
    LET known == tag # NoneTag /\ tag \in DOMAIN s.tags
        old == <<s.tags[tag], tag>>
    IN IF known /\ ~Contains(s.events, old)
       THEN Ret(s, <<>>, TRUE)
       ELSE LET ev1 == IF known THEN SortedRemove(s.events, old) ELSE s.events
            IN IF when > t
               THEN LET current_first == IF ev1 # <<>> THEN ev1[1][1] ELSE MaxDT
                        ev2 == SortedAdd(ev1, <<when, EvTag(tag)>>)
                        next == ev2[1][1]
                    IN Ret([events |-> ev2, tags |-> DictSet(s.tags, tag, when)],
                           IF current_first >= next THEN <<next>> ELSE <<>>,
                           FALSE)
               ELSE Ret([events |-> ev1, tags |-> s.tags], <<>>, FALSE)

schedule(s, t, when, tag) ==
    LET known == tag # NoneTag /\ tag \in DOMAIN s.tags
        old == <<s.tags[tag], tag>>
    IN IF known /\ ~Contains(s.events, old)
       THEN Ret(s, <<>>, TRUE)   \* SortedList.remove raises ValueError
       ELSE LET ev1 == IF known THEN SortedRemove(s.events, old) ELSE s.events
            IN IF when > t
               THEN LET current_first == IF ev1 # <<>> THEN ev1[1][1] ELSE MaxDT
                        ev2 == SortedAdd(ev1, <<when, EvTag(tag)>>)
                        next == ev2[1][1]
                    IN Ret([events |-> ev2, tags |-> DictSet(s.tags, tag, when)],
                           IF current_first > next THEN <<next>> ELSE <<>>,
                           FALSE)
               ELSE Ret([events |-> ev1, tags |-> s.tags], <<>>, FALSE)

\* un_schedule that pops the head when the tag given is not recorded.
un_schedule_PopsHeadIfAbsent(s, tag) ==
    IF tag # NoneTag /\ tag \in DOMAIN s.tags
    THEN IF Contains(s.events, <<s.tags[tag], tag>>)
         THEN Ret([events |-> SortedRemove(s.events, <<s.tags[tag], tag>>),
                   tags |-> DictDel(s.tags, tag)], <<>>, FALSE)
         ELSE Ret(s, <<>>, TRUE)
    ELSE IF s.events # <<>>
         THEN Ret([events |-> Tail(s.events), tags |-> s.tags], <<>>, FALSE)
         ELSE Ret(s, <<>>, FALSE)

un_schedule(s, tag) ==
    IF tag # NoneTag
    THEN IF tag \in DOMAIN s.tags
         THEN IF Contains(s.events, <<s.tags[tag], tag>>)
              THEN Ret([events |-> SortedRemove(s.events, <<s.tags[tag], tag>>),
                        tags |-> DictDel(s.tags, tag)], <<>>, FALSE)
              ELSE Ret(s, <<>>, TRUE)   \* SortedList.remove raises ValueError
         ELSE Ret(s, <<>>, FALSE)
    ELSE IF s.events # <<>>
         THEN Ret([events |-> Tail(s.events), tags |-> s.tags], <<>>, FALSE)
         ELSE Ret(s, <<>>, FALSE)

reset(s) == Ret(EmptySch, <<>>, FALSE)

\* The loop of advance with < for <=: the entries at the engine time stay.
RECURSIVE PopUntil_Strict(_, _)
PopUntil_Strict(ev, until) ==
    IF ev # <<>> /\ ev[1][1] < until THEN PopUntil_Strict(Tail(ev), until) ELSE ev

\* The loop of advance: pop the head while its time is <= until.
RECURSIVE PopUntil(_, _)
PopUntil(ev, until) ==
    IF ev # <<>> /\ ev[1][1] <= until THEN PopUntil(Tail(ev), until) ELSE ev

advance(s, t) ==
    LET ev == PopUntil(s.events, t)
    IN Ret([events |-> ev, tags |-> s.tags],
           IF ev # <<>> THEN <<ev[1][1]>> ELSE <<>>,
           FALSE)

\* ------------------------------------------------------------- NodeImpl
\* What eval_fn does with the injected scheduler: nothing, or one call.
NoCmd == [op |-> "none", when |-> 0, tag |-> NoneTag]
UserCmds(T) ==
    {NoCmd}
    \cup [op : {"schedule"}, when : Times, tag : T]
    \cup [op : {"un_schedule"}, when : {0}, tag : T]

UserCall(s, t, cmd) ==
    CASE cmd.op = "schedule" -> schedule(s, t, cmd.when, cmd.tag)
      [] cmd.op = "un_schedule" -> un_schedule(s, cmd.tag)
      [] OTHER -> Ret(s, <<>>, FALSE)

\* The inputs eval checks: signature.valid_inputs if given, else all.
ValidArgs(c) == IF c.has_valid_inputs THEN c.valid_inputs ELSE c.ts

AllValid(c, i) == \A k \in ValidArgs(c) : i[k] # "invalid"
AnyValid(c, i) == \E k \in ValidArgs(c) : i[k] # "invalid"
AnyModified(c, i) == \E k \in ValidArgs(c) : i[k] = "modified"

\* Output.apply_result(v): None is no result; a value marks the output
\* modified at the current engine time.
apply_result(o, v) == IF v = None THEN o ELSE [value |-> v, modified |-> TRUE]

EvalRet(called, s, o, calls, raised, scheduled) ==
    [called |-> called, sch |-> s, output |-> o, calls |-> calls,
     raised |-> raised, scheduled |-> scheduled]

\* A scheduled wakeup that overrides the validity check.
ReturnsEarly_ScheduledSkipsValidity(c, i, hs, scheduled) ==
    c.ts # {}
    /\ ~scheduled
    /\ (~AllValid(c, i) \/ (hs /\ ~AnyValid(c, i)))

\* A modification required of every evaluation, scheduled or not.
ReturnsEarly_AlwaysNeedsModified(c, i, hs, scheduled) ==
    c.ts # {}
    /\ (~AllValid(c, i) \/ ~AnyModified(c, i))

\* eval's checks before user code: with inputs, return unless every input
\* in V is valid; with a scheduler, return when not scheduled and no input
\* in V is valid.
ReturnsEarly(c, i, hs, scheduled) ==
    c.ts # {}
    /\ (~AllValid(c, i)
        \/ (hs /\ ~scheduled /\ ~AnyValid(c, i)))

\* NodeImpl.eval at engine time t; fn is what the user eval_fn does when it
\* is called: the value it returns and its use of the scheduler.
eval(c, i, hs, s, o, t, fn) ==
    LET scheduled == IF ~hs THEN FALSE ELSE is_scheduled_now(s, t)
    IN IF ReturnsEarly(c, i, hs, scheduled)
       THEN EvalRet(FALSE, s, o, <<>>, FALSE, scheduled)
       ELSE LET u == UserCall(s, t, fn.cmd)
            IN IF u.raised
               THEN EvalRet(TRUE, u.sch, o, u.calls, TRUE, scheduled)
               ELSE LET a == IF scheduled THEN advance(u.sch, t)
                                          ELSE Ret(u.sch, <<>>, FALSE)
                    IN EvalRet(TRUE, a.sch, apply_result(o, fn.out),
                               u.calls \o a.calls, FALSE, scheduled)

\* ----------------------------------------------- _SenderReceiverState
Senders == {"s1", "s2"}

\* dequeue taking the newest value (deque.pop()) instead of the oldest.
dequeue_Lifo(q) ==
    IF q # <<>> THEN [value |-> q[Len(q)], queue |-> SubSeq(q, 1, Len(q) - 1)]
                ELSE [value |-> None, queue |-> q]

\* deque.popleft() if the queue is not empty, else None.
dequeue(q) ==
    IF q # <<>> THEN [value |-> Head(q), queue |-> Tail(q)]
                ELSE [value |-> None, queue |-> q]

\* The push node as PythonPushQueueNodeImpl.start leaves it: an empty
\* queue, not stopped, no thread inside enqueue.
PushIdle ==
    /\ queue = <<>>
    /\ stopped = FALSE
    /\ pushPending = FALSE
    /\ lock = "free"
    /\ spc = [s \in Senders |-> "idle"]
    /\ sval = [s \in Senders |-> None]
    /\ epc = "idle"
    /\ held = None
    /\ nsends = 0
    /\ sent = <<>>
    /\ applied = <<>>
    /\ nApplied = 0

\* --------------------------------------------------- GeneratorNodeImpl
\* The time of the (None, None) pair that next() gives for an exhausted
\* generator.
NoTime == MaxDT + 1

\* The pairs a generator function may yield: the k-th pair carries the
\* value <<k>>; the times never decrease and may repeat.
GenValue(k) == <<k>>

GenSeqs ==
    UNION {{[k \in 1 .. n |-> <<f[k], GenValue(k)>>] :
               f \in {h \in [1 .. n -> Times] : \A k \in 1 .. n - 1 : h[k] <= h[k + 1]}} :
              n \in 0 .. MaxPairs}

GenRet(g, nv, o, calls, ap) ==
    [generator |-> g, next_value |-> nv, output |-> o, calls |-> calls, applied |-> ap]

\* GeneratorNodeImpl.eval at engine time t, its call of itself included;
\* ap collects the (engine time, value) pairs applied to the output.
RECURSIVE gen_eval(_, _, _, _, _)
gen_eval(g, nv, o, t, ap) ==
    LET pair == IF g # <<>> THEN Head(g) ELSE <<NoTime, None>>
        rest == IF g # <<>> THEN Tail(g) ELSE g
        time == pair[1]
        out == pair[2]
    IN IF out # None /\ time # NoTime /\ time <= t
       THEN gen_eval(rest, None, apply_result(o, out), t, Append(ap, <<t, out>>))
       ELSE LET o2 == IF nv # None THEN apply_result(o, nv) ELSE o
                ap2 == IF nv # None THEN Append(ap, <<t, nv>>) ELSE ap
            IN IF time # NoTime /\ out # None
               THEN GenRet(rest, out, o2, <<time>>, ap2)
               ELSE GenRet(rest, None, o2, <<>>, ap2)

\* ------------------------------------------- PythonTimeSeriesReference
\* Two concrete TS outputs, and the REF output "R".
ConcreteOuts == {"o1", "o2"}

\* The inputs: a TS input a, a TSL input l with the TS children l1, l2.
InputIds == {"a", "l", "l1", "l2"}

InClass(i) == IF i = "l" THEN "TSL" ELSE "TS"

Children(i) == IF i = "l" THEN <<"l1", "l2">> ELSE <<>>

\* Python's None where a reference is expected.
RefNone == [kind |-> "none", output |-> "none", items |-> <<>>, tp |-> "None"]

\* PythonTimeSeriesReference(): the invalid (empty) reference.
InvalidRef == [kind |-> "invalid", output |-> "none", items |-> <<>>, tp |-> "None"]

\* PythonTimeSeriesReference(output): peer form, tp is the output's class.
RefFromOutput(o) == [kind |-> "peer", output |-> o, items |-> <<>>, tp |-> "Output"]

\* PythonTimeSeriesReference(from_items=items): composite form, tp is None.
RefFromItems(items) == [kind |-> "items", output |-> "none", items |-> items, tp |-> "None"]

\* PythonTimeSeriesReference(ts) for an input of class c that has a peer
\* output o: tp is the input's class.
RefFromPeeredInput(o, c) == [kind |-> "peer", output |-> o, items |-> <<>>, tp |-> c]

\* PythonTimeSeriesReference(ts) for an input of class c without a peer:
\* one reference per child, tp is the input's class.
RefFromFreeInput(items, c) == [kind |-> "items", output |-> "none", items |-> items, tp |-> c]

\* PythonTimeSeriesReference(ts) for a reference input: a copy of its value.
RefFromRefInput(ref) == ref

\* The shape a reference stands for: what it points at, not how it was made.
RefShape(r) == IF r.kind = "peer" THEN "TS" ELSE IF r.kind = "items" THEN "TSL" ELSE "None"

BindRet(b, sm, calls, raised) == [bound |-> b, sample |-> sm, calls |-> calls, raised |-> raised]

\* input.bind_output(o) of an ordinary input, o = "none" for None: the
\* binding is replaced; if the output is valid the input samples the
\* engine time and, being active, notifies its node.
bind_output(st, i, o, os, t) ==
    IF o # "none" /\ os[o].lmt # MinDT
    THEN BindRet([st.bound EXCEPT ![i] = o], [st.sample EXCEPT ![i] = t],
                 Append(st.calls, t), FALSE)
    ELSE BindRet([st.bound EXCEPT ![i] = o], st.sample, st.calls, FALSE)

\* The type test of bind_input: the reference remembers an input class and
\* the input is not of it.
RejectsType(r, i) == r.tp \notin {"None", "Output"} /\ InClass(i) # r.tp

\* PythonTimeSeriesReference.bind_input on a reference without children.
bind_leaf(r, i, st, os, t) ==
    IF r.kind = "invalid" THEN bind_output(st, i, "none", os, t)
    ELSE IF RejectsType(r, i) THEN [st EXCEPT !.raised = TRUE]
    ELSE IF r.kind = "peer" THEN bind_output(st, i, r.output, os, t)
    ELSE [st EXCEPT !.raised = (Children(i) = <<>>)]

\* for item, r in zip(ts_input, self.items): r.bind_input(item), from the
\* k-th pair on; an error ends the loop.
RECURSIVE bind_items(_, _, _, _, _, _)
bind_items(items, kids, k, st, os, t) ==
    IF st.raised \/ k > Len(items) \/ k > Len(kids) THEN st
    ELSE bind_items(items, kids, k + 1, bind_leaf(items[k], kids[k], st, os, t), os, t)

\* bind_input leaving alone an input that already has a binding.
bind_input_KeepsBound(r, i, st, os, t) ==
    IF st.bound[i] # "none" THEN st
    ELSE IF r.kind = "invalid" THEN bind_output(st, i, "none", os, t)
    ELSE IF RejectsType(r, i) THEN [st EXCEPT !.raised = TRUE]
    ELSE IF r.kind = "peer" THEN bind_output(st, i, r.output, os, t)
    ELSE IF Children(i) = <<>> THEN [st EXCEPT !.raised = TRUE]
    ELSE bind_items(r.items, Children(i), 1, st, os, t)

\* PythonTimeSeriesReference.bind_input.
bind_input(r, i, st, os, t) ==
    IF r.kind = "invalid" THEN bind_output(st, i, "none", os, t)
    ELSE IF RejectsType(r, i) THEN [st EXCEPT !.raised = TRUE]
    ELSE IF r.kind = "peer" THEN bind_output(st, i, r.output, os, t)
    ELSE IF Children(i) = <<>> THEN [st EXCEPT !.raised = TRUE]
    ELSE bind_items(r.items, Children(i), 1, st, os, t)

\* The observers' loop stopping after the first observer.
bind_observers_FirstOnly(r, obs, k, st, os, t) ==
    IF k > Len(obs) THEN st ELSE bind_input(r, obs[k], st, os, t)

\* for observer in self._reference_observers.values():
\*     self._value.bind_input(observer), from the k-th observer on.
RECURSIVE bind_observers(_, _, _, _, _, _)
bind_observers(r, obs, k, st, os, t) ==
    IF st.raised \/ k > Len(obs) THEN st
    ELSE bind_observers(r, obs, k + 1, bind_input(r, obs[k], st, os, t), os, t)

\* The value setter storing the reference without re-binding the observers.
set_value_NoRebind(ro, v, obs, b, sm, os, t) ==
    IF v = RefNone
    THEN [refOutput |-> [value |-> RefNone, lmt |-> MinDT],
          st |-> BindRet(b, sm, <<>>, FALSE)]
    ELSE [refOutput |-> [value |-> v, lmt |-> t],
          st |-> BindRet(b, sm, <<>>, FALSE)]

\* PythonTimeSeriesReferenceOutput.value = v.
set_value(ro, v, obs, b, sm, os, t) ==
    IF v = RefNone
    THEN [refOutput |-> [value |-> RefNone, lmt |-> MinDT],
          st |-> BindRet(b, sm, <<>>, FALSE)]
    ELSE [refOutput |-> [value |-> v, lmt |-> t],
          st |-> bind_observers(v, obs, 1, BindRet(b, sm, <<>>, FALSE), os, t)]

\* --------------------------------------- PythonTimeSeriesReferenceInput
\* A REF input as it is made: no _value, no _output, never sampled; and
\* one that has no child reference inputs (_items is None).
NewRefInput == [value |-> RefNone, output |-> "none", sample |-> MinDT]

NoRefInput == [value |-> RefNone, output |-> "none", sample |-> MinDT, items |-> <<>>]

RiRet(ri, calls, ret) == [refInput |-> ri, calls |-> calls, ret |-> ret]

\* do_bind_output: a REF output is bound as a peer (the base class keeps
\* it in _output); from any other output a reference is made and the
\* owning node is notified.
ri_do_bind_output(ri, o, isStarted, t) ==
    IF o = "R"
    THEN RiRet([ri EXCEPT !.output = "R"], <<>>, TRUE)
    ELSE RiRet([ri EXCEPT !.value = RefFromOutput(o),
                          !.sample = IF isStarted THEN t ELSE MinST],
               <<t>>, FALSE)

\* PythonTimeSeriesReferenceInput.bind_output; the input is active.
ri_bind_output(ri, o, ro, isStarted, t) ==
    LET d == ri_do_bind_output(ri, o, isStarted, t)
    IN IF isStarted /\ d.refInput.output # "none" /\ ro.lmt # MinDT
       THEN RiRet([d.refInput EXCEPT !.sample = t], Append(d.calls, t), d.ret)
       ELSE d

\* do_un_bind_output: the base class forgets _output; a reference the
\* input made itself is dropped and the sample time is set.
ri_do_un_bind_output(ri, isStarted, t) ==
    IF ri.value # RefNone
    THEN [ri EXCEPT !.output = "none", !.value = RefNone,
                    !.sample = IF isStarted THEN t ELSE MinST]
    ELSE [ri EXCEPT !.output = "none"]

\* __getitem__(item): child reference inputs are made up to index item.
ri_getitem(ri, item) ==
    [ri EXCEPT !.items = [k \in 1 .. (IF item > Len(@) THEN item ELSE Len(@)) |->
                             IF k <= Len(@) THEN @[k] ELSE NewRefInput]]

\* value read keeping nothing: the composite is built at every read.
ri_value_NoCache(ri, ro) ==
    IF ri.value # RefNone THEN [raised |-> FALSE, ref |-> ri.value, refInput |-> ri]
    ELSE IF ri.items # <<>>
    THEN IF \E k \in 1 .. Len(ri.items) : ri.items[k].value = RefNone
         THEN [raised |-> TRUE, ref |-> RefNone, refInput |-> ri]
         ELSE [raised |-> FALSE,
               ref |-> RefFromItems([k \in 1 .. Len(ri.items) |-> ri.items[k].value]),
               refInput |-> ri]
    ELSE [raised |-> TRUE, ref |-> RefNone, refInput |-> ri]

\* PythonTimeSeriesReferenceInput.value: _value if it is set; else, with
\* child inputs, the composite of the children's values, which is kept in
\* _value; otherwise `super().value()`, which calls the value the base
\* property returns, a reference or None, and raises TypeError (as does
\* the read of a child without a value).
ri_value(ri, ro) ==
    IF ri.value # RefNone THEN [raised |-> FALSE, ref |-> ri.value, refInput |-> ri]
    ELSE IF ri.items # <<>>
    THEN IF \E k \in 1 .. Len(ri.items) : ri.items[k].value = RefNone
         THEN [raised |-> TRUE, ref |-> RefNone, refInput |-> ri]
         ELSE LET v == RefFromItems([k \in 1 .. Len(ri.items) |-> ri.items[k].value])
              IN [raised |-> FALSE, ref |-> v, refInput |-> [ri EXCEPT !.value = v]]
    ELSE [raised |-> TRUE, ref |-> RefNone, refInput |-> ri]

\* PythonTimeSeriesReferenceInput.modified at engine time t (no child
\* inputs): the output's if _output is set, else the sample time's.
ri_modified(ri, ro, t) ==
    IF ri.output # "none" THEN ro.lmt = t
    ELSE ri.sample # MinDT /\ ri.sample = t

\* PythonTimeSeriesReferenceInput.last_modified_time (no child inputs).
ri_last_modified_time(ri, ro) ==
    IF ri.output # "none" THEN ro.lmt ELSE ri.sample

\* PythonTimeSeriesReferenceInput.valid
ri_valid(ri, ro) == ri.value # RefNone \/ (ri.output # "none" /\ ro.lmt # MinDT)

\* The references user code can build: the empty one, one from either
\* output, one from a TS input bound to o1, lists of one and of two
\* references, and one from a TSL input whose children are bound.
Refs ==
    {InvalidRef, RefFromOutput("o1"), RefFromOutput("o2"),
     RefFromPeeredInput("o1", "TS"),
     RefFromItems(<<RefFromOutput("o2")>>),
     RefFromItems(<<RefFromOutput("o2"), RefFromOutput("o1")>>),
     RefFromFreeInput(<<RefFromPeeredInput("o2", "TS"), RefFromPeeredInput("o2", "TS")>>,
                      "TSL")}

\* The upstreams a merge node selects from by index.
Ups == <<"o1", "o2">>

RefOp(op, ref, input, target, raised, ret) ==
    [op |-> op, ref |-> ref, input |-> input, target |-> target,
     raised |-> raised, ret |-> ret]

\* No reference machinery in use.
RefIdle ==
    /\ outs = [o \in ConcreteOuts |-> [value |-> 0, lmt |-> MinDT]]
    /\ refOutput = [value |-> RefNone, lmt |-> MinDT]
    /\ reference_observers = <<>>
    /\ bound = [i \in InputIds |-> "none"]
    /\ sample = [i \in InputIds |-> MinDT]
    /\ refInput = NoRefInput
    /\ index = None
    /\ mergeDue = FALSE
    /\ refOp = RefOp("init", RefNone, "none", "none", FALSE, FALSE)

\* ------------------------------------------------------------ TSD output
TsdKeys == {"k1", "k2"}

\* A key without a child; a child that has no value yet; the scalars set.
NoChild == "<absent>"
NoValue == "<unset>"
TsdScalars == {"v"}

REMOVE == "REMOVE"
REMOVE_IF_EXISTS == "REMOVE_IF_EXISTS"

NoItems == [k \in TsdKeys |-> NoChild]

NeverModified == [k \in TsdKeys |-> MinDT]

\* The registered key observers, in registration order.
KeyObservers == <<"ob1", "ob2">>

\* The dict output: _ts_values, the key set's members, _removed_items,
\* _added_keys, the children's last modified times, the calls made on the
\* key observers, and whether KeyError was raised.
TsdSt(tv, ks, ri, ak, lm, calls, raised) ==
    [ts_values |-> tv, key_set |-> ks, removed_items |-> ri, added_keys |-> ak,
     child_lmt |-> lm, calls |-> calls, raised |-> raised]

\* for observer in self._key_observers: observer.<event>(key)
NotifyKey(event, k) ==
    [n \in 1 .. Len(KeyObservers) |-> <<KeyObservers[n], event, k>>]

\* delitem leaving the key in the key set.
delitem_KeepsKey(st, k) ==
    IF st.ts_values[k] = NoChild
    THEN [st EXCEPT !.raised = TRUE]
    ELSE [st EXCEPT !.removed_items[k] = st.ts_values[k],
                    !.ts_values[k] = NoChild,
                    !.child_lmt[k] = MinDT,
                    !.calls = @ \o NotifyKey("on_key_removed", k)]

\* delitem telling only the first observer.
delitem_FirstObserver(st, k) ==
    IF st.ts_values[k] = NoChild
    THEN [st EXCEPT !.raised = TRUE]
    ELSE [st EXCEPT !.removed_items[k] = st.ts_values[k],
                    !.ts_values[k] = NoChild,
                    !.child_lmt[k] = MinDT,
                    !.key_set = @ \ {k},
                    !.calls = Append(@, <<KeyObservers[1], "on_key_removed", k>>)]

\* PythonTimeSeriesDictOutput._create: the key joins the key set, a child
\* is made for it and the observers are told.
create(st, k) ==
    [st EXCEPT !.key_set = @ \cup {k},
               !.ts_values[k] = NoValue,
               !.child_lmt[k] = MinDT,
               !.calls = @ \o NotifyKey("on_key_added", k)]

\* TimeSeriesDict.get_or_create: _create for an absent key; the child.
get_or_create(st, k) ==
    IF st.ts_values[k] = NoChild THEN create(st, k) ELSE st

\* PythonTimeSeriesDictOutput.__delitem__
delitem(st, k) ==
    IF st.ts_values[k] = NoChild
    THEN [st EXCEPT !.raised = TRUE]
    ELSE [st EXCEPT !.removed_items[k] = st.ts_values[k],
                    !.ts_values[k] = NoChild,
                    !.child_lmt[k] = MinDT,
                    !.key_set = @ \ {k},
                    !.calls = @ \o NotifyKey("on_key_removed", k)]

\* The loop of the value setter over the pairs of v, from the n-th on, at
\* engine time t: a scalar is set on the key's child, which marks the
\* child modified at t.
RECURSIVE set_items(_, _, _, _)
set_items(st, v, n, t) ==
    IF n > Len(v) \/ st.raised THEN st
    ELSE LET k == v[n][1]
             v_ == v[n][2]
         IN IF v_ \in {REMOVE, REMOVE_IF_EXISTS}
            THEN IF v_ = REMOVE_IF_EXISTS /\ st.ts_values[k] = NoChild
                 THEN set_items(st, v, n + 1, t)
                 ELSE set_items(delitem(st, k), v, n + 1, t)
            ELSE set_items([get_or_create(st, k) EXCEPT !.ts_values[k] = v_,
                                                        !.child_lmt[k] = t],
                           v, n + 1, t)

\* PythonTimeSeriesDictOutput.value = v: the loop, then
\* add_after_evaluation_notification(self._clear_key_changes) if a key
\* was added or removed. The callbacks are kept as a set: running
\* _clear_key_changes twice is running it once.
tsd_value(st, v, cbs, t) ==
    LET r == set_items(st, v, 1, t)
    IN [st |-> r,
        after_evaluation |->
            IF ~r.raised /\ (r.removed_items # NoItems \/ r.added_keys # {})
            THEN cbs \cup {"_clear_key_changes"} ELSE cbs]

\* What delta_value has for key k: frozendict(chain(modified children,
\* (k, REMOVE) for the removed keys)); of two pairs with one key the later
\* one stays. NoChild: the key is not in the delta.
delta_value(st, k, t) ==
    IF st.removed_items[k] # NoChild THEN REMOVE
    ELSE IF st.ts_values[k] # NoChild /\ st.child_lmt[k] = t THEN st.ts_values[k]
    ELSE NoChild

\* PythonTimeSeriesDictOutput.value: the valid children's values.
tsd_out_value(st, k) ==
    IF st.ts_values[k] \in {NoChild, NoValue} THEN NoChild ELSE st.ts_values[k]

\* The mappings assigned: up to two pairs of a key and a scalar or marker.
TsdPairs == TsdKeys \X (TsdScalars \cup {REMOVE, REMOVE_IF_EXISTS})

Mappings == {<<>>} \cup {<<p>> : p \in TsdPairs}
                  \cup {<<p, q>> : p \in TsdPairs, q \in TsdPairs}

TsdOp(op, key, calls, raised) ==
    [op |-> op, key |-> key, calls |-> calls, raised |-> raised]

\* A dict output without keys.
TsdIdle ==
    /\ ts_values = NoItems
    /\ key_set = {}
    /\ removed_items = NoItems
    /\ added_keys = {}
    /\ child_lmt = NeverModified
    /\ removedNow = {}
    /\ after_evaluation = {}
    /\ tsdOp = TsdOp("init", "none", <<>>, FALSE)

\* ------------------------------------------------------------- TSD input
DictOuts == {"A", "B"}

\* The keys the two outputs are written with: B never has k1.
WrittenKeys == [o \in DictOuts |-> IF o = "A" THEN TsdKeys ELSE {"k2"}]

KeyOrder == <<"k1", "k2">>

\* A key of the input without a child, and the child _create makes.
NoIn == [present |-> FALSE, bound |-> "none", transplanted |-> FALSE,
         active |-> FALSE, sampled |-> FALSE]

NewIn == [NoIn EXCEPT !.present = TRUE]

NoIns == [k \in TsdKeys |-> NoIn]

\* A dict output as the input sees it.
NoOut == [ts_values |-> NoItems, ticked |-> {}, removedKs |-> {}, observers |-> 0]

InKeys(m) == {k \in TsdKeys : m[k].present}

OutKeys(o) == {k \in TsdKeys : o.ts_values[k] # NoChild}

\* The input, the outputs, the callbacks and whether an exception left.
InSt(i, os, cbs, raised) == [tin |-> i, douts |-> os, cbs |-> cbs, raised |-> raised]

\* PythonTimeSeriesDictInput.on_key_added making the child active
\* whenever the input is active.
on_key_added_IgnoresPeer(S, k) ==
    LET o == S.tin.output
        c == IF S.tin.ts_values[k].present THEN S.tin.ts_values[k] ELSE NewIn
        S1 == [S EXCEPT !.tin.ts_values[k] = c]
    IN IF o = "none" \/ S.raised THEN [S1 EXCEPT !.raised = TRUE]
       ELSE IF S.douts[o].ts_values[k] = NoChild THEN [S1 EXCEPT !.raised = TRUE]
       ELSE [S1 EXCEPT !.tin.ts_values[k] =
                 [c EXCEPT !.bound = o,
                           !.sampled = (S.douts[o].ts_values[k] # NoValue),
                           !.active = (c.active \/ S.tin.active)]]

\* PythonTimeSeriesDictInput.on_key_added leaving the child un-bound.
on_key_added_NoBind(S, k) ==
    LET c == IF S.tin.ts_values[k].present THEN S.tin.ts_values[k] ELSE NewIn
    IN [S EXCEPT !.tin.ts_values[k] = c]

\* PythonTimeSeriesDictInput.on_key_added: get_or_create(key) makes the
\* child if there is none; it is bound to self.output[key] (an error if
\* there is no output or the output has no such key), which samples the
\* time when that child has a value; it is made active if the input is
\* active and has no peer.
on_key_added(S, k) ==
    LET o == S.tin.output
        c == IF S.tin.ts_values[k].present THEN S.tin.ts_values[k] ELSE NewIn
        S1 == [S EXCEPT !.tin.ts_values[k] = c]
    IN IF o = "none" \/ S.raised THEN [S1 EXCEPT !.raised = TRUE]
       ELSE IF S.douts[o].ts_values[k] = NoChild THEN [S1 EXCEPT !.raised = TRUE]
       ELSE [S1 EXCEPT !.tin.ts_values[k] =
                 [c EXCEPT !.bound = o,
                           !.sampled = (S.douts[o].ts_values[k] # NoValue),
                           !.active = (c.active \/ (~S.tin.has_peer /\ S.tin.active))]]

\* PythonTimeSeriesDictInput.on_key_removed
on_key_removed(S, k) ==
    LET S1 == IF InKeys(S.tin.removed_items) = {}
              THEN [S EXCEPT !.cbs = @ \cup {"_clear_key_changes"}] ELSE S
        c == S.tin.ts_values[k]
    IN IF S.raised THEN S
       ELSE IF ~c.present THEN [S1 EXCEPT !.raised = TRUE]
       ELSE IF ~c.transplanted
       THEN [S1 EXCEPT !.tin.ts_values[k] = NoIn,
                       !.tin.removed_items[k] = [c EXCEPT !.active = FALSE]]
       ELSE [S1 EXCEPT !.tin.ts_values[k] = [c EXCEPT !.bound = "none"]]

\* for key in key_set.values(): self.on_key_added(key), from the n-th key.
RECURSIVE add_keys(_, _, _)
add_keys(S, ks, n) ==
    IF n > Len(KeyOrder) THEN S
    ELSE IF KeyOrder[n] \in ks
         THEN add_keys(on_key_added(S, KeyOrder[n]), ks, n + 1)
         ELSE add_keys(S, ks, n + 1)

\* do_bind_output not remembering the previous output.
in_do_bind_output_ForgetsPrev(S, o) ==
    LET old == S.tin.output
        S1 == [S EXCEPT !.tin.key_set = o]
        S2 == IF old # "none"
              THEN [S1 EXCEPT !.douts[old].observers = @ - 1]
              ELSE S1
        S3 == [S2 EXCEPT !.tin.output = o]
        S4 == IF InKeys(S3.tin.ts_values) # {}
              THEN [S3 EXCEPT !.tin.removed_items = S3.tin.ts_values,
                              !.tin.ts_values = NoIns,
                              !.cbs = @ \cup {"_clear_key_changes"}]
              ELSE S3
        S5 == add_keys(S4, OutKeys(S4.douts[o]), 1)
    IN IF old # "none" /\ S.douts[old].observers = 0
       THEN [S1 EXCEPT !.raised = TRUE]
       ELSE IF S5.raised THEN S5
       ELSE [S5 EXCEPT !.douts[o].observers = @ + 1]

\* PythonTimeSeriesDictInput.do_bind_output (the owning node is started).
in_do_bind_output(S, o) ==
    LET old == S.tin.output
        S1 == [S EXCEPT !.tin.key_set = o]
        S2 == IF old # "none"
              THEN [S1 EXCEPT !.douts[old].observers = @ - 1,
                              !.tin.prev_output = old,
                              !.cbs = @ \cup {"_reset_prev"}]
              ELSE S1
        S3 == [S2 EXCEPT !.tin.output = o]
        S4 == IF InKeys(S3.tin.ts_values) # {}
              THEN [S3 EXCEPT !.tin.removed_items = S3.tin.ts_values,
                              !.tin.ts_values = NoIns,
                              !.cbs = @ \cup {"_clear_key_changes"}]
              ELSE S3
        S5 == add_keys(S4, OutKeys(S4.douts[o]), 1)
    IN IF old # "none" /\ S.douts[old].observers = 0
       THEN [S1 EXCEPT !.raised = TRUE]
       ELSE IF S5.raised THEN S5
       ELSE [S5 EXCEPT !.douts[o].observers = @ + 1]

\* The loop of do_un_bind_output over the removed items, from the n-th
\* key: the first transplanted child met is un-bound, put back among the
\* children and popped from the dict being iterated, and the iteration
\* then raises RuntimeError (dictionary changed size during iteration).
RECURSIVE un_bind_items(_, _)
un_bind_items(S, n) ==
    IF n > Len(KeyOrder) THEN S
    ELSE LET k == KeyOrder[n]
             c == S.tin.removed_items[k]
         IN IF c.present /\ c.transplanted
            THEN [S EXCEPT !.tin.ts_values[k] = [c EXCEPT !.bound = "none"],
                           !.tin.removed_items[k] = NoIn,
                           !.raised = TRUE]
            ELSE un_bind_items(S, n + 1)

\* PythonTimeSeriesDictInput.do_un_bind_output
in_do_un_bind_output(S) ==
    LET S1 == [S EXCEPT !.tin.key_set = "none"]
    IN IF InKeys(S1.tin.ts_values) = {} THEN S1
       ELSE un_bind_items([S1 EXCEPT !.tin.removed_items = S1.tin.ts_values,
                                      !.tin.ts_values = NoIns,
                                      !.cbs = @ \cup {"_clear_key_changes"}], 1)

\* The calls an output makes on its observers: the input once for every
\* time it is in _key_observers.
RECURSIVE tell_added(_, _, _)
tell_added(S, k, n) == IF n = 0 THEN S ELSE tell_added(on_key_added(S, k), k, n - 1)

RECURSIVE tell_removed(_, _, _)
tell_removed(S, k, n) == IF n = 0 THEN S ELSE tell_removed(on_key_removed(S, k), k, n - 1)

\* PythonTimeSeriesDictOutput._create on output o.
out_create(S, o, k) ==
    tell_added([S EXCEPT !.douts[o].ts_values[k] = NoValue,
                         !.douts[o].removedKs = @ \ {k}],
               k, S.douts[o].observers)

\* PythonTimeSeriesDictOutput.__delitem__ on output o, the key present.
out_delitem(S, o, k) ==
    tell_removed([S EXCEPT !.douts[o].ts_values[k] = NoChild,
                           !.douts[o].ticked = @ \ {k},
                           !.douts[o].removedKs = @ \cup {k}],
                 k, S.douts[o].observers)

\* output.value = {k: v_} on output o.
out_assign(S, o, k, v_) ==
    IF v_ = REMOVE THEN out_delitem(S, o, k)
    ELSE LET S1 == IF S.douts[o].ts_values[k] = NoChild THEN out_create(S, o, k) ELSE S
         IN IF S1.raised THEN S1
            ELSE [S1 EXCEPT !.douts[o].ts_values[k] = v_,
                            !.douts[o].ticked = @ \cup {k}]

\* The key set input's removed(): after a re-bind in this evaluation the
\* previous output's keys that the new one has not, otherwise the keys the
\* output's key set lost in this evaluation.
in_removed_keys(i, os) ==
    IF i.key_set = "none" THEN {}
    ELSE IF i.prev_output # "none"
         THEN OutKeys(os[i.prev_output]) \ OutKeys(os[i.key_set])
         ELSE os[i.key_set].removedKs

\* A child input's value and whether it is modified: its output's.
in_child_value(c, k, os) ==
    IF c.bound = "none" \/ os[c.bound].ts_values[k] = NoChild THEN NoValue
    ELSE os[c.bound].ts_values[k]

in_child_modified(c, k, os) ==
    c.sampled \/ (c.bound # "none" /\ k \in os[c.bound].ticked)

\* PythonTimeSeriesDictInput.value for key k: every child's value,
\* a child without a value included (NoValue); NoChild: no such key.
in_value(i, os, k) ==
    IF i.ts_values[k].present THEN in_child_value(i.ts_values[k], k, os) ELSE NoChild

\* PythonTimeSeriesDictInput.delta_value for key k.
in_delta_value(i, os, k) ==
    IF k \in in_removed_keys(i, os) THEN REMOVE
    ELSE IF i.ts_values[k].present /\ in_child_modified(i.ts_values[k], k, os)
         THEN in_child_value(i.ts_values[k], k, os)
    ELSE NoChild

TinOp(op, out, key, old, raised) ==
    [op |-> op, out |-> out, key |-> key, old |-> old, raised |-> raised]

\* No dict input.
TsdInIdle ==
    /\ douts = [o \in DictOuts |-> NoOut]
    /\ tin = [output |-> "none", key_set |-> "none", prev_output |-> "none",
              ts_values |-> NoIns, removed_items |-> NoIns,
              active |-> FALSE, has_peer |-> FALSE]
    /\ tinCbs = {}
    /\ tinOp = TinOp("init", "none", "none", "none", FALSE)

\* No generator node.
GenIdle ==
    /\ generator = <<>>
    /\ next_value = None
    /\ yielded = <<>>
    /\ genApplied = <<>>

\* ------------------------------------------------------- graph builder
MaxNodes == 4

WNodes == 1 .. MaxNodes

NodeTypes == {"PUSH_SOURCE_NODE", "PULL_SOURCE_NODE", "COMPUTE_NODE", "SINK_NODE"}

SourceTypes == {"PUSH_SOURCE_NODE", "PULL_SOURCE_NODE"}

\* A wiring graph: each node's type, the nodes its time-series inputs
\* come from, and whether it is a stub. Inputs come from nodes of lower
\* number, so the graph has no cycle; source nodes have no inputs, the
\* others have one at least, nothing reads a sink node, and only source
\* nodes are stubs.
WiringNodes(n) ==
    {r \in [node_type : NodeTypes, inputs : SUBSET (1 .. n - 1), is_stub : BOOLEAN] :
        /\ (r.node_type \in SourceTypes) = (r.inputs = {})
        /\ r.is_stub => r.node_type = "PULL_SOURCE_NODE"}

\* The wiring graphs of the first n nodes.
RECURSIVE WiringsOf(_)
WiringsOf(n) ==
    IF n = 0 THEN {<<>>}
    ELSE {Append(w, r) : w \in WiringsOf(n - 1), r \in WiringNodes(n)}

Wirings ==
    {w \in WiringsOf(MaxNodes) :
        /\ \A n \in WNodes : \A m \in w[n].inputs : w[m].node_type # "SINK_NODE"
        /\ \E n \in WNodes : w[n].node_type = "SINK_NODE"}

NoWiring ==
    [n \in WNodes |-> [node_type |-> "PULL_SOURCE_NODE", inputs |-> {}, is_stub |-> FALSE]]

SetMax(S) == CHOOSE x \in S : \A y \in S : y <= x

\* WiringNodeInstance.rank: 1 for a node without inputs, else one more
\* than the highest rank among the nodes it reads.
RECURSIVE rank(_, _)
rank(w, n) ==
    IF w[n].inputs = {} THEN 1
    ELSE 1 + SetMax({rank(w, m) : m \in w[n].inputs})

sink_nodes(w) == {n \in WNodes : w[n].node_type = "SINK_NODE"}

max_rank(w) == SetMax({rank(w, n) : n \in sink_nodes(w)})

\* The rank a node is filed under, push sources left at rank 1.
node_rank_PushAtOne(w, n) ==
    IF w[n].node_type = "SINK_NODE" THEN max_rank(w) ELSE rank(w, n)

\* The rank a node is filed under in ranked_nodes.
node_rank(w, n) ==
    LET r == rank(w, n)
        r1 == IF r = 1
              THEN (IF w[n].node_type = "PUSH_SOURCE_NODE" THEN 0 ELSE 1)
              ELSE r
    IN IF w[n].node_type = "SINK_NODE" THEN max_rank(w) ELSE r1

\* The sink nodes as the tuple given to create_graph_builder.
RECURSIVE SetToSeq(_)
SetToSeq(S) ==
    IF S = {} THEN <<>>
    ELSE LET x == CHOOSE y \in S : \A z \in S : y <= z
         IN <<x>> \o SetToSeq(S \ {x})

GbOp(pc, i, raised) == [pc |-> pc, i |-> i, raised |-> raised]

BuildIdle ==
    /\ wiring = NoWiring
    /\ pending_nodes = <<>>
    /\ ranked_nodes = [r \in 0 .. MaxNodes |-> {}]
    /\ node_map = [n \in WNodes |-> -1]
    /\ node_builders = <<>>
    /\ edges = {}
    /\ gbOp = GbOp("idle", 0, FALSE)

\* --------------------------------------------------------------- merge_tsd
\* A dict of references as merge_tsd reads it.
NoRefs == [present |-> {}, gen |-> [k \in TsdKeys |-> 0], modified |-> {}, removed |-> {}]

\* tsd<s>[k].value: the reference the key's child holds, the g-th one
\* set for the key.
RefOf(s, g) == "tsd" \o ToString(s) \o "[k]#" \o ToString(g)

RefValue(s, t, k) == RefOf(s, t.gen[k])

\* What happens to a key of an input dict in one evaluation: nothing, the
\* key is added, its reference is set to another target, it is removed.
Deltas == {"none", "add", "retarget", REMOVE}

Applicable(t, k, d) ==
    CASE d = "add" -> k \notin t.present
      [] d \in {"retarget", REMOVE} -> k \in t.present
      [] OTHER -> TRUE

apply_delta(t, k, d) ==
    CASE d \in {"add", "retarget"} ->
             [t EXCEPT !.present = @ \cup {k}, !.gen[k] = @ + 1, !.modified = @ \cup {k}]
      [] d = REMOVE ->
             [t EXCEPT !.present = @ \ {k}, !.removed = @ \cup {k}]
      [] OTHER -> t

RECURSIVE apply_deltas(_, _, _)
apply_deltas(t, d, n) ==
    IF n > Len(KeyOrder) THEN t
    ELSE apply_deltas(apply_delta(t, KeyOrder[n], d[KeyOrder[n]]), d, n + 1)

\* dict.update with one pair: a key the dict has keeps its place.
DictUpdate(tick, k, v) ==
    IF \E n \in 1 .. Len(tick) : tick[n][1] = k
    THEN [n \in 1 .. Len(tick) |-> IF tick[n][1] = k THEN <<k, v>> ELSE tick[n]]
    ELSE Append(tick, <<k, v>>)

\* tick.update({k: val[k] for k in ks}), the keys taken in KeyOrder.
RECURSIVE UpdateAll(_, _, _, _)
UpdateAll(tick, ks, val, n) ==
    IF n > Len(KeyOrder) THEN tick
    ELSE IF KeyOrder[n] \in ks
         THEN UpdateAll(DictUpdate(tick, KeyOrder[n], val[KeyOrder[n]]), ks, val, n + 1)
         ELSE UpdateAll(tick, ks, val, n + 1)

\* merge_tsd always emitting REMOVE for a key removed from tsd1.
merge_tsd_NoSwitch(t1, t2) ==
    LET u1 == UpdateAll(<<>>, t1.modified, [k \in TsdKeys |-> RefValue(1, t1, k)], 1)
        u2 == UpdateAll(u1, t2.modified \ t1.present,
                        [k \in TsdKeys |-> RefValue(2, t2, k)], 1)
        u3 == UpdateAll(u2, t1.removed, [k \in TsdKeys |-> REMOVE], 1)
    IN UpdateAll(u3, t2.removed \ t1.present, [k \in TsdKeys |-> REMOVE], 1)

\* merge_tsd(tsd1, tsd2): the tick it returns, as the pairs of the dict.
merge_tsd(t1, t2) ==
    LET u1 == UpdateAll(<<>>, t1.modified, [k \in TsdKeys |-> RefValue(1, t1, k)], 1)
        u2 == UpdateAll(u1, t2.modified \ t1.present,
                        [k \in TsdKeys |-> RefValue(2, t2, k)], 1)
        u3 == UpdateAll(u2, t1.removed,
                        [k \in TsdKeys |-> IF k \in t2.present
                                            THEN RefValue(2, t2, k) ELSE REMOVE], 1)
    IN UpdateAll(u3, t2.removed \ t1.present, [k \in TsdKeys |-> REMOVE], 1)

MergeTsdIdle == tsd1 = NoRefs /\ tsd2 = NoRefs

ExtIdle == GenIdle /\ RefIdle /\ TsdIdle /\ TsdInIdle /\ MergeTsdIdle /\ BuildIdle

\* ------------------------------------------------------------ the model
\* The signatures explored: no time-series input; two inputs with
\* valid_inputs not given, empty (as the map node passes tuple()), or one.
Shapes ==
    {[ts |-> {}, has_valid_inputs |-> FALSE, valid_inputs |-> {}],
     [ts |-> Inputs, has_valid_inputs |-> FALSE, valid_inputs |-> {}],
     [ts |-> Inputs, has_valid_inputs |-> TRUE, valid_inputs |-> {}],
     [ts |-> Inputs, has_valid_inputs |-> TRUE, valid_inputs |-> {"x"}]}

Configs ==
    {[ts |-> c.ts, has_valid_inputs |-> c.has_valid_inputs,
      valid_inputs |-> c.valid_inputs, uses_scheduler |-> u] :
        c \in Shapes, u \in BOOLEAN}

\* The tags the node's own functions pass to its scheduler.
NodeTags == {NoneTag, "a"}

\* The record of the last call: the call and its arguments, the times it
\* passed to graph.schedule_node, whether it raised; for eval, whether
\* eval_fn was called and what is_scheduled_now was on entry; `before` is
\* the number of scheduler entries when the call began.
Op(op, when, tag, calls, raised, called, scheduled) ==
    [op |-> op, when |-> when, tag |-> tag, calls |-> calls, raised |-> raised,
     called |-> called, scheduled |-> scheduled, before |-> 0]

Idle(op) == Op(op, 0, NoneTag, <<>>, FALSE, FALSE, FALSE)

\* --------------------------------------------------------------- Graph
\* graph.schedule_node(ndx, t) for the times a call passed, in order: the
\* graph holds the (time, node) pairs pending for the node.
schedule_node(p, calls) == p \cup {calls[k] : k \in 1 .. Len(calls)}

Init ==
    /\ now = 0
    /\ cfg \in Configs
    /\ ins = [k \in Inputs |-> "invalid"]
    /\ started = FALSE
    /\ hasScheduler = FALSE
    /\ sch = EmptySch
    /\ output = [value |-> None, modified |-> FALSE]
    /\ pending = {}
    /\ evald = FALSE
    /\ last = Idle("init")
    /\ PushIdle
    /\ ExtIdle

\* NodeImpl.start: the kwargs are built (a function that takes the
\* scheduler has it created here) and start_fn runs, itself free to use it.
Start ==
    /\ ~started
    /\ \E cmd \in IF cfg.uses_scheduler THEN UserCmds(NodeTags) ELSE {NoCmd} :
          LET r == UserCall(sch, now, cmd)
          IN /\ sch' = r.sch
             /\ pending' = schedule_node(pending, r.calls)
             /\ last' = Op("start", 0, NoneTag, r.calls, r.raised, FALSE, FALSE)
    /\ started' = TRUE
    /\ hasScheduler' = cfg.uses_scheduler
    /\ UNCHANGED <<now, cfg, ins, output, evald>>
    /\ UNCHANGED <<pushVars, extVars>>

\* The engine moves to the next engine time once the node, if it was
\* ready, has been evaluated: nothing is modified at the new time yet.
Tick ==
    /\ started
    /\ now < MaxTime
    /\ now \notin pending
    /\ now' = now + 1
    /\ ins' = [k \in Inputs |-> IF ins[k] = "modified" THEN "valid" ELSE ins[k]]
    /\ output' = [output EXCEPT !.modified = FALSE]
    /\ evald' = FALSE
    /\ last' = Idle("tick")
    /\ UNCHANGED <<cfg, started, hasScheduler, sch, pending>>
    /\ UNCHANGED <<pushVars, extVars>>

\* The output an input is bound to ticks at the current engine time, before
\* the node's turn in rank order; the input is active (active_inputs is
\* not given) and notifies the node: NodeImpl.notify schedules it now.
InputTicks ==
    /\ started
    /\ ~evald
    /\ \E k \in cfg.ts : ins' = [ins EXCEPT ![k] = "modified"]
    /\ pending' = schedule_node(pending, <<now>>)
    /\ last' = Idle("input")
    /\ UNCHANGED <<now, cfg, started, hasScheduler, sch, output, evald>>
    /\ UNCHANGED <<pushVars, extVars>>

\* The engine pulls the node from the ready set of the current engine time
\* and evaluates it.
Eval ==
    /\ started
    /\ now \in pending
    /\ \E out \in OutValues \cup {None},
          cmd \in IF hasScheduler THEN UserCmds(NodeTags) ELSE {NoCmd} :
          LET r == eval(cfg, ins, hasScheduler, sch, output, now,
                        [out |-> out, cmd |-> cmd])
          IN /\ Len(r.sch.events) <= MaxEvents
             /\ sch' = r.sch
             /\ output' = r.output
             /\ pending' = schedule_node(pending \ {now}, r.calls)
             /\ last' = [Op("eval", 0, NoneTag, r.calls, r.raised, r.called, r.scheduled)
                           EXCEPT !.before = Len(sch.events)]
    /\ evald' = TRUE
    /\ UNCHANGED <<now, cfg, ins, started, hasScheduler>>
    /\ UNCHANGED <<pushVars, extVars>>

\* The node: its start, the engine's clock and evaluations, upstream ticks.
Next == Start \/ Tick \/ InputTicks \/ Eval

Spec == Init /\ [][Next]_vars

\* NodeImpl.start with a start_fn that makes two calls on the scheduler.
StartTwoCalls ==
    /\ ~started
    /\ cfg.uses_scheduler
    /\ \E c1 \in UserCmds(NodeTags), c2 \in UserCmds(NodeTags) :
          LET r1 == UserCall(sch, now, c1)
              r2 == UserCall(r1.sch, now, c2)
          IN /\ ~r1.raised
             /\ sch' = r2.sch
             /\ pending' = schedule_node(pending, r1.calls \o r2.calls)
             /\ last' = Op("start", 0, NoneTag, r1.calls \o r2.calls, r2.raised, FALSE, FALSE)
    /\ started' = TRUE
    /\ hasScheduler' = TRUE
    /\ UNCHANGED <<now, cfg, ins, output, evald>>
    /\ UNCHANGED <<pushVars, extVars>>

WakeNext == StartTwoCalls \/ Tick \/ InputTicks \/ Eval

\* A node whose start_fn and eval_fn use the scheduler, over some engine
\* times.
WakeSpec == Init /\ [][WakeNext]_vars

\* --------------------------------------------------- the scheduler alone
\* node.scheduler.schedule(when, tag), at the current engine time.
Schedule ==
    /\ \E when \in Times, tag \in TagKeys :
          LET r == schedule(sch, now, when, tag)
          IN /\ Len(r.sch.events) <= MaxEvents
             /\ sch' = r.sch
             /\ pending' = schedule_node(pending, r.calls)
             /\ last' = [Op("schedule", when, tag, r.calls, r.raised, FALSE, FALSE)
                           EXCEPT !.before = Len(sch.events)]
    /\ UNCHANGED <<now, cfg, ins, started, hasScheduler, output, evald>>
    /\ UNCHANGED <<pushVars, extVars>>

UnSchedule ==
    /\ \E tag \in TagKeys :
          LET r == un_schedule(sch, tag)
          IN /\ sch' = r.sch
             /\ pending' = schedule_node(pending, r.calls)
             /\ last' = [Op("un_schedule", 0, tag, r.calls, r.raised, FALSE, FALSE)
                           EXCEPT !.before = Len(sch.events)]
    /\ UNCHANGED <<now, cfg, ins, started, hasScheduler, output, evald>>
    /\ UNCHANGED <<pushVars, extVars>>

Reset ==
    /\ LET r == reset(sch)
       IN /\ sch' = r.sch
          /\ pending' = schedule_node(pending, r.calls)
          /\ last' = [Op("reset", 0, NoneTag, r.calls, r.raised, FALSE, FALSE)
                        EXCEPT !.before = Len(sch.events)]
    /\ UNCHANGED <<now, cfg, ins, started, hasScheduler, output, evald>>
    /\ UNCHANGED <<pushVars, extVars>>

Advance ==
    /\ LET r == advance(sch, now)
       IN /\ sch' = r.sch
          /\ pending' = schedule_node(pending, r.calls)
          /\ last' = [Op("advance", 0, NoneTag, r.calls, r.raised, FALSE, FALSE)
                        EXCEPT !.before = Len(sch.events)]
    /\ UNCHANGED <<now, cfg, ins, started, hasScheduler, output, evald>>
    /\ UNCHANGED <<pushVars, extVars>>

\* The clock alone moves on; the pairs the graph held for the time left
\* behind are gone with it.
SchedTick ==
    /\ now < MaxTime
    /\ now' = now + 1
    /\ pending' = pending \ {now}
    /\ last' = Idle("tick")
    /\ UNCHANGED <<cfg, ins, started, hasScheduler, sch, output, evald>>
    /\ UNCHANGED <<pushVars, extVars>>

\* A started node without inputs whose scheduler exists.
SchedInit ==
    /\ now = 0
    /\ cfg = [ts |-> {}, has_valid_inputs |-> FALSE, valid_inputs |-> {},
              uses_scheduler |-> TRUE]
    /\ ins = [k \in Inputs |-> "invalid"]
    /\ started = TRUE
    /\ hasScheduler = TRUE
    /\ sch = EmptySch
    /\ output = [value |-> None, modified |-> FALSE]
    /\ pending = {}
    /\ evald = FALSE
    /\ last = Idle("init")
    /\ PushIdle
    /\ ExtIdle

\* Every sequence of calls on the scheduler, at every engine time.
SchedNext == SchedTick \/ Schedule \/ UnSchedule \/ Reset \/ Advance

SchedSpec == SchedInit /\ [][SchedNext]_vars

\* ------------------------------------------------- the push-queue node
nodeVars == <<now, cfg, ins, started, hasScheduler, sch, pending, evald, last>>

\* A sender thread calls receiver(value): enqueue enters `with self.lock`.
\* The value is a fresh one, or None (nothing stops a caller passing it).
SenderAcquire(s) ==
    /\ spc[s] = "idle"
    /\ nsends < MaxSends
    /\ lock = "free"
    /\ lock' = s
    /\ nsends' = nsends + 1
    /\ \E v \in {<<nsends + 1>>, None} : sval' = [sval EXCEPT ![s] = v]
    /\ spc' = [spc EXCEPT ![s] = "locked"]
    /\ UNCHANGED <<queue, stopped, pushPending, epc, held, sent, applied, nApplied>>
    /\ UNCHANGED <<nodeVars, output, extVars>>

\* if self.stopped: raise (leaving the with block releases the lock).
SenderCheck(s) ==
    /\ spc[s] = "locked"
    /\ IF stopped
       THEN /\ spc' = [spc EXCEPT ![s] = "idle"]
            /\ lock' = "free"
       ELSE /\ spc' = [spc EXCEPT ![s] = "checked"]
            /\ lock' = lock
    /\ UNCHANGED <<queue, stopped, pushPending, sval, epc, held, nsends, sent,
                   applied, nApplied>>
    /\ UNCHANGED <<nodeVars, output, extVars>>

\* self.queue.append(value)
SenderAppend(s) ==
    /\ spc[s] = "checked"
    /\ queue' = Append(queue, sval[s])
    /\ sent' = Append(sent, sval[s])
    /\ spc' = [spc EXCEPT ![s] = "appended"]
    /\ UNCHANGED <<stopped, pushPending, lock, sval, epc, held, nsends, applied,
                   nApplied>>
    /\ UNCHANGED <<nodeVars, output, extVars>>

\* self.context.mark_push_has_pending_values(), and the lock is released.
SenderMark(s) ==
    /\ spc[s] = "appended"
    /\ pushPending' = TRUE
    /\ lock' = "free"
    /\ spc' = [spc EXCEPT ![s] = "idle"]
    /\ UNCHANGED <<queue, stopped, sval, epc, held, nsends, sent, applied, nApplied>>
    /\ UNCHANGED <<nodeVars, output, extVars>>

\* The engine, woken by the push-has-pending-values flag, clears the flag
\* immediately before it evaluates the push node.
ServicePush ==
    /\ epc = "idle"
    /\ ~stopped
    /\ pushPending
    /\ pushPending' = FALSE
    /\ epc' = "cleared"
    /\ UNCHANGED <<queue, stopped, lock, spc, sval, held, nsends, sent, applied, nApplied>>
    /\ UNCHANGED <<nodeVars, output, extVars>>

\* The engine calls eval: receiver.dequeue() enters `with self.lock`.
EvalAcquire ==
    /\ epc = "cleared"
    /\ lock = "free"
    /\ lock' = "engine"
    /\ epc' = "locked"
    /\ nApplied' = 0
    /\ UNCHANGED <<queue, stopped, pushPending, spc, sval, held, nsends, sent, applied>>
    /\ UNCHANGED <<nodeVars, output, extVars>>

\* value = the queue's head or None; the lock is released.
EvalDequeue ==
    /\ epc = "locked"
    /\ LET r == dequeue(queue)
       IN /\ held' = r.value
          /\ queue' = r.queue
    /\ lock' = "free"
    /\ epc' = "dequeued"
    /\ UNCHANGED <<stopped, pushPending, spc, sval, nsends, sent, applied, nApplied>>
    /\ UNCHANGED <<nodeVars, output, extVars>>

\* if value is None: return; else mark_push_has_pending_values().
EvalMark ==
    /\ epc = "dequeued"
    /\ IF held = None
       THEN /\ epc' = "idle"
            /\ pushPending' = pushPending
       ELSE /\ epc' = "marked"
            /\ pushPending' = TRUE
    /\ UNCHANGED <<queue, stopped, lock, spc, sval, held, nsends, sent, applied, nApplied>>
    /\ UNCHANGED <<nodeVars, output, extVars>>

\* self.output.apply_result(value)
EvalApply ==
    /\ epc = "marked"
    /\ output' = apply_result(output, held)
    /\ applied' = Append(applied, held)
    /\ nApplied' = nApplied + 1
    /\ held' = None
    /\ epc' = "idle"
    /\ UNCHANGED <<queue, stopped, pushPending, lock, spc, sval, nsends, sent>>
    /\ UNCHANGED <<nodeVars, extVars>>

\* PythonPushQueueNodeImpl.stop, by the engine between evaluations; it
\* takes no lock.
PushStop ==
    /\ epc = "idle"
    /\ ~stopped
    /\ stopped' = TRUE
    /\ UNCHANGED <<queue, pushPending, lock, spc, sval, epc, held, nsends, sent,
                   applied, nApplied>>
    /\ UNCHANGED <<nodeVars, output, extVars>>

Sender == \E s \in Senders :
    SenderAcquire(s) \/ SenderCheck(s) \/ SenderAppend(s) \/ SenderMark(s)

PushNext == Sender \/ ServicePush \/ EvalAcquire \/ EvalDequeue \/ EvalMark \/ EvalApply \/ PushStop

\* The started push node: sender threads and the engine interleave.
PushSpec == SchedInit /\ [][PushNext]_vars

\* ------------------------------------------------- the generator node
genNodeVars == <<cfg, ins, hasScheduler, sch, evald, pushVars, tsdVars, tsdInVars,
                 mergeTsdVars, buildVars>>

\* GeneratorNodeImpl.start: eval_fn is called, which makes the generator
\* object without running it, and the node is scheduled at the engine time.
GenStart ==
    /\ ~started
    /\ started' = TRUE
    /\ generator' = yielded
    /\ pending' = schedule_node(pending, <<now>>)
    /\ last' = Op("start", 0, NoneTag, <<now>>, FALSE, FALSE, FALSE)
    /\ UNCHANGED <<now, output, next_value, yielded, genApplied, genNodeVars, refVars>>

\* The engine pulls the node from the ready set of the current engine time
\* and evaluates it.
GenEval ==
    /\ started
    /\ now \in pending
    /\ LET r == gen_eval(generator, next_value, output, now, <<>>)
       IN /\ generator' = r.generator
          /\ next_value' = r.next_value
          /\ output' = r.output
          /\ genApplied' = genApplied \o r.applied
          /\ pending' = schedule_node(pending \ {now}, r.calls)
          /\ last' = [Op("eval", 0, NoneTag, r.calls, FALSE, TRUE, FALSE)
                        EXCEPT !.before = Len(generator)]
    /\ UNCHANGED <<now, started, yielded, genNodeVars, refVars>>

\* The engine moves to the next engine time once the node, if it was
\* ready, has been evaluated.
GenTick ==
    /\ started
    /\ now < MaxTime
    /\ now \notin pending
    /\ now' = now + 1
    /\ output' = [output EXCEPT !.modified = FALSE]
    /\ last' = Idle("tick")
    /\ UNCHANGED <<started, pending, genVars, genNodeVars, refVars>>

\* A generator node built over any of the generator functions, at any
\* start time.
GenInit ==
    /\ now \in Times
    /\ cfg = [ts |-> {}, has_valid_inputs |-> FALSE, valid_inputs |-> {},
              uses_scheduler |-> FALSE]
    /\ ins = [k \in Inputs |-> "invalid"]
    /\ started = FALSE
    /\ hasScheduler = FALSE
    /\ sch = EmptySch
    /\ output = [value |-> None, modified |-> FALSE]
    /\ pending = {}
    /\ evald = FALSE
    /\ last = Idle("init")
    /\ PushIdle
    /\ yielded \in GenSeqs
    /\ generator = <<>>
    /\ next_value = None
    /\ genApplied = <<>>
    /\ RefIdle
    /\ TsdIdle
    /\ TsdInIdle
    /\ MergeTsdIdle
    /\ BuildIdle

GenNext == GenStart \/ GenEval \/ GenTick

GenSpec == GenInit /\ [][GenNext]_vars

\* -------------------------------------------------- the reference engine
refNodeVars == <<cfg, ins, started, hasScheduler, sch, output, evald, last, pushVars,
                 genVars, tsdVars, tsdInVars, mergeTsdVars, buildVars>>

\* A concrete output ticks (once per engine time): its value changes and
\* the nodes of the inputs bound to it are scheduled.
OutTick ==
    /\ \E o \in ConcreteOuts :
          /\ outs[o].lmt # now
          /\ outs[o].value < MaxTicks
          /\ outs' = [outs EXCEPT ![o] = [value |-> outs[o].value + 1, lmt |-> now]]
          /\ pending' = IF \E i \in InputIds : bound[i] = o
                        THEN schedule_node(pending, <<now>>) ELSE pending
          /\ refOp' = RefOp("tick", RefNone, "none", o, FALSE, FALSE)
    /\ UNCHANGED <<now, refOutput, reference_observers, bound, sample, refInput,
                   index, mergeDue, refNodeVars>>

\* A node assigns a reference, or None, to the REF output.
SetRef ==
    /\ \E v \in Refs \cup {RefNone} :
          LET r == set_value(refOutput, v, reference_observers, bound, sample, outs, now)
          IN /\ refOutput' = r.refOutput
             /\ bound' = r.st.bound
             /\ sample' = r.st.sample
             /\ pending' = schedule_node(pending, r.st.calls)
             /\ refOp' = RefOp("set", v, "none", refOutput.value.output, r.st.raised, FALSE)
    /\ UNCHANGED <<now, outs, reference_observers, refInput, index, mergeDue, refNodeVars>>

\* reference.bind_input(input) called on its own.
BindInput ==
    /\ \E r \in Refs, i \in {"a", "l"} :
          LET st == bind_input(r, i, BindRet(bound, sample, <<>>, FALSE), outs, now)
          IN /\ bound' = st.bound
             /\ sample' = st.sample
             /\ pending' = schedule_node(pending, st.calls)
             /\ refOp' = RefOp("bind_input", r, i, "none", st.raised, FALSE)
    /\ UNCHANGED <<now, outs, refOutput, reference_observers, refInput, index, mergeDue,
                   refNodeVars>>

\* The REF input is bound to a concrete output or to the REF output.
BindRefInput ==
    /\ \E o \in ConcreteOuts \cup {"R"} :
          LET r == ri_bind_output(refInput, o, refOutput, started, now)
          IN /\ refInput' = r.refInput
             /\ pending' = schedule_node(pending, r.calls)
             /\ refOp' = RefOp("ri_bind", RefNone, "none", o, FALSE, r.ret)
    /\ UNCHANGED <<now, outs, refOutput, reference_observers, bound, sample, index,
                   mergeDue, refNodeVars>>

\* The owning node reads the REF input's value.
ReadRefInput ==
    /\ refOp.op = "ri_bind"
    /\ LET r == ri_value(refInput, refOutput)
       IN /\ refInput' = r.refInput
          /\ refOp' = RefOp("ri_read", r.ref, "none", refOp.target, r.raised, FALSE)
    /\ UNCHANGED <<now, pending, outs, refOutput, reference_observers, bound, sample,
                   index, mergeDue, refNodeVars>>

\* The index input of the merge node ticks.
IndexTicks ==
    /\ \E k \in 1 .. Len(Ups) : index' = <<k>>
    /\ mergeDue' = TRUE
    /\ refOp' = RefOp("index", RefNone, "none", "none", FALSE, FALSE)
    /\ UNCHANGED <<now, pending, outs, refOutput, reference_observers, bound, sample,
                   refInput, refNodeVars>>

\* merge_ref is evaluated: it returns ts[index.value].value, the reference
\* its index-th REF input made from the upstream it is bound to.
MergeEval ==
    /\ mergeDue
    /\ mergeDue' = FALSE
    /\ LET v == RefFromOutput(Ups[index[1]])
           r == set_value(refOutput, v, reference_observers, bound, sample, outs, now)
       IN /\ refOutput' = r.refOutput
          /\ bound' = r.st.bound
          /\ sample' = r.st.sample
          /\ pending' = schedule_node(pending, r.st.calls)
          /\ refOp' = RefOp("merge", v, "none", "none", r.st.raised, FALSE)
    /\ UNCHANGED <<now, outs, reference_observers, refInput, index, refNodeVars>>

\* The engine moves to the next engine time, every ready node evaluated.
RefTick ==
    /\ now < MaxRefTime
    /\ ~mergeDue
    /\ now' = now + 1
    /\ pending' = {}
    /\ refOp' = RefOp("clock", RefNone, "none", "none", FALSE, FALSE)
    /\ UNCHANGED <<outs, refOutput, reference_observers, bound, sample, refInput,
                   index, mergeDue, refNodeVars>>

\* Started nodes around one REF output: some inputs are registered as its
\* reference observers; every TS input starts bound to o1.
RefInit ==
    /\ now = 0
    /\ cfg = [ts |-> {}, has_valid_inputs |-> FALSE, valid_inputs |-> {},
              uses_scheduler |-> FALSE]
    /\ ins = [k \in Inputs |-> "invalid"]
    /\ started = TRUE
    /\ hasScheduler = FALSE
    /\ sch = EmptySch
    /\ output = [value |-> None, modified |-> FALSE]
    /\ pending = {}
    /\ evald = FALSE
    /\ last = Idle("init")
    /\ PushIdle
    /\ GenIdle
    /\ TsdIdle
    /\ TsdInIdle
    /\ MergeTsdIdle
    /\ BuildIdle
    /\ outs = [o \in ConcreteOuts |-> [value |-> 0, lmt |-> MinDT]]
    /\ refOutput = [value |-> RefNone, lmt |-> MinDT]
    /\ reference_observers \in {<<"a">>, <<"l">>, <<"a", "l">>}
    /\ bound = [i \in InputIds |-> IF i = "l" THEN "none" ELSE "o1"]
    /\ sample = [i \in InputIds |-> MinDT]
    /\ refInput = NoRefInput
    /\ index = None
    /\ mergeDue = FALSE
    /\ refOp = RefOp("init", RefNone, "none", "none", FALSE, FALSE)

RefNext == OutTick \/ SetRef \/ RefTick

\* The REF output, its observers and the outputs references point at.
RefSpec == RefInit /\ [][RefNext]_vars

BindNext == OutTick \/ BindInput

\* References bound to inputs directly.
BindSpec == RefInit /\ [][BindNext]_vars

RefInputNext == SetRef \/ BindRefInput \/ ReadRefInput \/ RefTick

\* A REF input of a started node beside the REF output.
RefInputSpec == RefInit /\ [][RefInputNext]_vars

MergeNext == OutTick \/ IndexTicks \/ MergeEval \/ RefTick

\* merge_ref feeding consumers through the REF output.
MergeSpec == RefInit /\ [][MergeNext]_vars

\* ================================================================ claims
\* A step of NodeImpl.eval: the step's record names it.
EvalStep == last'.op = "eval"

\* C1: when eval runs for a node with time-series inputs and some input in
\* V is not valid, eval_fn is not called and the output is left unchanged,
\* whether or not the scheduler has a wakeup at the current engine time.
C1_InvalidInputBlocksEval ==
    [][(EvalStep /\ cfg.ts # {} /\ ~AllValid(cfg, ins))
          => (~last'.called /\ output' = output /\ last'.calls = <<>>)]_vars

\* C1's case: an evaluation with an invalid input in V while the scheduler's
\* head is at the current engine time; eval_fn was not called.
C1_Witness ==
    /\ last.op = "eval"
    /\ cfg.ts # {}
    /\ ~AllValid(cfg, ins)
    /\ hasScheduler /\ is_scheduled_now(sch, now)
    /\ last.scheduled
    /\ ~last.called

\* C2 (as claimed): when eval runs with every input in V valid, no
\* scheduler head at the current engine time and no input in V modified,
\* eval_fn is not called.  Stated for the evaluations in which no input of
\* the node at all is modified, so that nothing but a withdrawn wakeup
\* brought the node to the ready set.
C2_Claim ==
    (/\ last.op = "eval"
     /\ ValidArgs(cfg) # {}
     /\ AllValid(cfg, ins)
     /\ ~AnyModified(cfg, ins)
     /\ \A k \in cfg.ts : ins[k] # "modified"
     /\ ~last.scheduled)
        => ~last.called

\* C3: when eval runs while the scheduler's head equals the current engine
\* time and every input in V is valid, eval_fn is called even though no
\* input is modified.
C3_ScheduledWakeupRuns ==
    [][(EvalStep /\ hasScheduler /\ sch.events # <<>> /\ sch.events[1][1] = now
            /\ AllValid(cfg, ins))
          => last'.called]_vars

\* C3's case: an evaluation at the scheduler's head time of a node with
\* inputs, all valid and none modified; eval_fn was called.
C3_Witness ==
    /\ last.op = "eval"
    /\ last.scheduled
    /\ ValidArgs(cfg) # {}
    /\ AllValid(cfg, ins)
    /\ ~AnyModified(cfg, ins)
    /\ last.called

\* C4 (as claimed): when a node is evaluated while its scheduler's head is
\* at the current engine time, then when eval returns the scheduler holds
\* no entry at or before that time, and if entries remain the graph was
\* asked to schedule the node at the earliest of them.
C4_Claim ==
    (/\ last.op = "eval"
     /\ last.scheduled
     /\ ~last.raised)
        => /\ \A k \in 1 .. Len(sch.events) : sch.events[k][1] > now
           /\ sch.events # <<>> =>
                /\ last.calls # <<>>
                /\ last.calls[Len(last.calls)] = sch.events[1][1]

\* ---------------------------------------------------- scheduler claims
\* The entries a scheduler can hold, and how often a list holds one.
EntryUniverse == Times \X UserTags

Count(s, e) == Cardinality({k \in 1 .. Len(s) : s[k] = e})

WithTag(s, g) == {k \in 1 .. Len(s) : s[k][2] = g}

\* C5 (as claimed): schedule(t1, tag) directly followed by schedule(t2, tag),
\* both times later than the engine time, leaves exactly one entry for the
\* tag, with time t2.  Stated for a named (non-empty) tag.
C5_Claim ==
    [][(/\ last.op = "schedule"
        /\ last'.op = "schedule"
        /\ last.tag = last'.tag
        /\ last.tag \notin {NoneTag, ""}
        /\ last.when > now
        /\ last'.when > now)
          => /\ Cardinality(WithTag(sch'.events, last'.tag)) = 1
             /\ \A k \in WithTag(sch'.events, last'.tag) :
                    sch'.events[k][1] = last'.when
      ]_vars

\* C6 (as claimed): no two entries carry the same tag, an untagged call
\* counting as the empty-string tag.
C6_Claim ==
    \A j, k \in 1 .. Len(sch.events) :
        j # k => sch.events[j][2] # sch.events[k][2]

\* C6 (amended): no two entries carry the same non-empty tag; only entries
\* with the empty tag (untagged calls, and calls passing "") may repeat.
C6_DistinctNamedTags ==
    \A j, k \in 1 .. Len(sch.events) :
        (j # k /\ sch.events[j][2] = sch.events[k][2]) => sch.events[j][2] = ""

\* C6's case: tag "a" was scheduled again while its entry and another
\* entry were in the list; the list still holds one entry for "a".
C6_Witness ==
    /\ last.op = "schedule"
    /\ last.tag = "a"
    /\ last.when > now
    /\ ~last.raised
    /\ last.before = 2
    /\ Len(sch.events) = 2
    /\ Cardinality(WithTag(sch.events, "a")) = 1

\* The times of the entries left once one occurrence of `old` is taken out
\* (when `known`).
TimesLeft(s, known, old) ==
    {e[1] : e \in {f \in EntryUniverse :
                     Count(s, f) - (IF known /\ f = old THEN 1 ELSE 0) > 0}}

\* C7 (as claimed): schedule(when, tag) removes the tag's entry if it has
\* one; adds nothing and makes no graph call if when <= now; otherwise adds
\* exactly (when, tag) and calls graph.schedule_node(node, when) if and only
\* if the new entry becomes the head of the list.
C7_Claim ==
    [][(last'.op = "schedule") =>
        LET w == last'.when
            g == last'.tag
            new == <<w, EvTag(g)>>
            had(e) == g # NoneTag /\ e[2] = g /\ Count(sch.events, e) > 0
        IN /\ \A e \in EntryUniverse :
                Count(sch'.events, e) =
                    Count(sch.events, e) - (IF had(e) THEN 1 ELSE 0)
                                         + (IF w > now /\ e = new THEN 1 ELSE 0)
           /\ last'.calls = IF w > now /\ sch'.events[1] = new THEN <<w>> ELSE <<>>
      ]_vars

\* C7 (amended): schedule(when, tag) with a tag whose recorded entry is no
\* longer in the list raises and changes nothing.  Otherwise the tag's
\* recorded entry, if any, is removed; if when <= now nothing is added and
\* the graph is not called; if when > now exactly (when, tag) is added and
\* graph.schedule_node(node, when) is called if and only if when is
\* strictly earlier than the time of every entry that was left.
C7_ScheduleEffect ==
    [][(last'.op = "schedule") =>
        LET w == last'.when
            g == last'.tag
            new == <<w, EvTag(g)>>
            known == g # NoneTag /\ g \in DOMAIN sch.tags
            old == <<sch.tags[g], g>>
        IN IF known /\ Count(sch.events, old) = 0
           THEN last'.raised /\ sch' = sch /\ last'.calls = <<>>
           ELSE /\ ~last'.raised
                /\ IsSorted(sch'.events)
                /\ \A e \in EntryUniverse :
                     Count(sch'.events, e) =
                         Count(sch.events, e)
                             - (IF known /\ e = old THEN 1 ELSE 0)
                             + (IF w > now /\ e = new THEN 1 ELSE 0)
                /\ last'.calls =
                     IF w > now /\ \A t \in TimesLeft(sch.events, known, old) : w < t
                     THEN <<w>> ELSE <<>>
      ]_vars

\* C7's case: a tag was moved to a time that ties with the entry left at
\* the head; the new entry is in the list and the graph was not called.
C7_Witness ==
    /\ last.op = "schedule"
    /\ last.tag = "a"
    /\ last.when > now
    /\ ~last.raised
    /\ last.before = 2
    /\ Len(sch.events) = 2
    /\ sch.events[1][1] = last.when
    /\ sch.events[2] = <<last.when, "a">>
    /\ last.calls = <<>>

\* The earliest time among the entries of a non-empty list.
MinTime(s) ==
    CHOOSE m \in {s[k][1] : k \in 1 .. Len(s)} : \A k \in 1 .. Len(s) : m <= s[k][1]

\* C8: advance removes every entry whose time is <= the engine time and no
\* other; if an entry remains the graph is asked to schedule the node at
\* the earliest remaining time, and otherwise no graph call is made.
C8_AdvanceEffect ==
    [][(last'.op = "advance") =>
        /\ sch'.events = SelectSeq(sch.events, LAMBDA e : e[1] > now)
        /\ last'.calls = IF sch'.events # <<>> THEN <<MinTime(sch'.events)>> ELSE <<>>
        /\ ~last'.raised
      ]_vars

\* C8's case: advance dropped an entry that was due and left a later one,
\* for which the graph was called.
C8_Witness ==
    /\ last.op = "advance"
    /\ last.before = 2
    /\ Len(sch.events) = 1
    /\ sch.events[1][1] > now
    /\ last.calls = <<sch.events[1][1]>>

\* The list s without its k-th entry.
Without(s, k) == SubSeq(s, 1, k - 1) \o SubSeq(s, k + 1, Len(s))

\* C9 (as claimed): un_schedule(tag) with a tag that is present removes
\* exactly that tag's entry; otherwise (no tag, or a tag that is not
\* present) it removes the head entry if there is one.
C9_Claim ==
    [][(last'.op = "un_schedule") =>
        LET g == last'.tag
        IN IF g # NoneTag /\ WithTag(sch.events, g) # {}
           THEN \E k \in WithTag(sch.events, g) : sch'.events = Without(sch.events, k)
           ELSE sch'.events = IF sch.events # <<>> THEN Tail(sch.events) ELSE <<>>
      ]_vars

\* C9 (amended): un_schedule() without a tag removes the head entry if
\* there is one.  un_schedule(tag) with a tag the scheduler has no record
\* of changes nothing; with a recorded tag whose entry is in the list it
\* removes exactly that entry and leaves all others unchanged; with a
\* recorded tag whose entry is no longer in the list it raises and
\* changes nothing.
C9_UnScheduleEffect ==
    [][(last'.op = "un_schedule") =>
        LET g == last'.tag
        IN IF g = NoneTag
           THEN /\ sch'.events = IF sch.events # <<>> THEN Tail(sch.events) ELSE <<>>
                /\ ~last'.raised
           ELSE IF g \notin DOMAIN sch.tags
           THEN sch' = sch /\ ~last'.raised
           ELSE IF Count(sch.events, <<sch.tags[g], g>>) > 0
           THEN /\ \E k \in 1 .. Len(sch.events) :
                     /\ sch.events[k] = <<sch.tags[g], g>>
                     /\ sch'.events = Without(sch.events, k)
                /\ ~last'.raised
           ELSE sch' = sch /\ last'.raised
      ]_vars

\* C9's case: un_schedule was called with a tag the scheduler has no
\* record of while the list held entries; both entries are still there.
C9_Witness ==
    /\ last.op = "un_schedule"
    /\ last.tag = "a"
    /\ "a" \notin DOMAIN sch.tags
    /\ ~last.raised
    /\ last.before = 2
    /\ Len(sch.events) = 2

\* ---------------------------------------------------- push-queue claims
\* The values of a sequence: None stands for "no value" (apply_result
\* ignores it), so it is not one of them.
Values(q) == SelectSeq(q, LAMBDA v : v # None)

\* The value the engine has dequeued and not yet applied, if any.
HeldSeq == IF held # None THEN <<held>> ELSE <<>>

\* C10: under every interleaving of sender threads and the engine's eval,
\* the values applied to the output, followed by the value eval holds and
\* the values still queued, are the enqueued values in enqueue order: each
\* is applied once, in order, none is invented or lost; and one eval
\* applies at most one value.
C10_FifoOnce ==
    /\ applied \o HeldSeq \o Values(queue) = Values(sent)
    /\ Values(applied) = applied
    /\ nApplied <= 1

\* C10's case: two values have been applied while a sender thread is in
\* the middle of enqueue, having appended a third.
C10_Witness ==
    /\ Len(applied) = 2
    /\ Values(queue) # <<>>
    /\ \E s \in Senders : spc[s] = "appended"
    /\ Len(Values(sent)) = Len(applied) + Len(Values(queue))

\* ---------------------------------------------------- generator claims
\* The generator has run dry and the node has nothing cached or scheduled.
GenDone == started /\ generator = <<>> /\ next_value = None /\ pending = {}

\* C13 (as claimed): every value the generator yields is applied to the
\* output exactly once and in yield order; none is dropped, also when
\* two consecutive pairs carry the same time.
C13_Claim ==
    GenDone => [k \in 1 .. Len(genApplied) |-> genApplied[k][2]]
                   = [k \in 1 .. Len(yielded) |-> yielded[k][2]]

\* C14 (as claimed): start pulls the first pair from the generator: once
\* the node is started the generator has been advanced past its first
\* pair, before any eval.
C14_Claim ==
    (started /\ yielded # <<>>) => Len(generator) < Len(yielded)

\* ----------------------------------------------------- TSD output steps
MaxDrains == 2

tsdNodeVars == <<cfg, ins, started, hasScheduler, sch, output, pending, evald, last,
                 pushVars, genVars, refVars, tsdInVars, mergeTsdVars, buildVars>>

TsdNow == TsdSt(ts_values, key_set, removed_items, added_keys, child_lmt, <<>>, FALSE)

TsdStore(st) ==
    /\ ts_values' = st.ts_values
    /\ key_set' = st.key_set
    /\ removed_items' = st.removed_items
    /\ added_keys' = st.added_keys
    /\ child_lmt' = st.child_lmt
    /\ removedNow' = removedNow \cup {k \in TsdKeys : <<KeyObservers[1], "on_key_removed", k>>
                                                       \in {st.calls[n] : n \in 1 .. Len(st.calls)}}

\* tsd.value = v (apply_result with a mapping). An exception ends the
\* run: nothing is done on the dict after it.
TsdSetValue ==
    /\ ~tsdOp.raised
    /\ \E v \in Mappings :
          LET r == tsd_value(TsdNow, v, after_evaluation, now)
          IN /\ TsdStore(r.st)
             /\ after_evaluation' = r.after_evaluation
             /\ tsdOp' = TsdOp("value", "none", r.st.calls, r.st.raised)
    /\ UNCHANGED <<now, tsdNodeVars>>

\* tsd.get_or_create(k) called directly.
TsdGetOrCreate ==
    /\ ~tsdOp.raised
    /\ \E k \in TsdKeys :
          LET r == get_or_create(TsdNow, k)
          IN /\ TsdStore(r)
             /\ tsdOp' = TsdOp("get_or_create", k, r.calls, FALSE)
    /\ UNCHANGED <<now, after_evaluation, tsdNodeVars>>

\* del tsd[k] called directly.
TsdDelItem ==
    /\ ~tsdOp.raised
    /\ \E k \in TsdKeys :
          LET r == delitem(TsdNow, k)
          IN /\ TsdStore(r)
             /\ tsdOp' = TsdOp("del", k, r.calls, r.raised)
    /\ UNCHANGED <<now, after_evaluation, tsdNodeVars>>

\* The end of an evaluation step: the engine runs the after-evaluation
\* callbacks (_clear_key_changes if it was registered), forgets them and
\* moves to the next time.
TsdEndStep ==
    /\ ~tsdOp.raised
    /\ now < MaxDrains
    /\ IF "_clear_key_changes" \in after_evaluation
       THEN removed_items' = NoItems /\ added_keys' = {}
       ELSE UNCHANGED <<removed_items, added_keys>>
    /\ after_evaluation' = {}
    /\ removedNow' = {}
    /\ now' = now + 1
    /\ tsdOp' = TsdOp("end", "none", <<>>, FALSE)
    /\ UNCHANGED <<ts_values, key_set, child_lmt, tsdNodeVars>>

TsdInit ==
    /\ now = 0
    /\ cfg = [ts |-> {}, has_valid_inputs |-> FALSE, valid_inputs |-> {},
              uses_scheduler |-> FALSE]
    /\ ins = [k \in Inputs |-> "invalid"]
    /\ started = TRUE
    /\ hasScheduler = FALSE
    /\ sch = EmptySch
    /\ output = [value |-> None, modified |-> FALSE]
    /\ pending = {}
    /\ evald = FALSE
    /\ last = Idle("init")
    /\ PushIdle
    /\ ExtIdle

TsdNext == TsdSetValue \/ TsdGetOrCreate \/ TsdDelItem \/ TsdEndStep

\* A dict output written by its node over some evaluation steps.
TsdSpec == TsdInit /\ [][TsdNext]_vars

\* ------------------------------------------- the REF input's lifetime
lifeNodeVars == <<cfg, ins, hasScheduler, sch, output, evald, last, pushVars,
                  genVars, tsdVars, tsdInVars, mergeTsdVars, buildVars>>

\* The owning node of the REF input is started.
NodeStarts ==
    /\ ~started
    /\ started' = TRUE
    /\ refOp' = RefOp("start", RefNone, "none", "none", FALSE, FALSE)
    /\ UNCHANGED <<now, pending, outs, refOutput, reference_observers, bound, sample,
                   refInput, index, mergeDue, lifeNodeVars>>

\* The REF input is un-bound.
UnBindRefInput ==
    /\ refInput.output # "none" \/ refInput.value # RefNone
    /\ refInput' = ri_do_un_bind_output(refInput, started, now)
    /\ refOp' = RefOp("ri_un_bind", RefNone, "none", "none", FALSE, FALSE)
    /\ UNCHANGED <<now, pending, outs, refOutput, reference_observers, bound, sample,
                   index, mergeDue, refNodeVars>>

\* A REF input of a node that is not started yet, beside the REF output.
LifeInit ==
    /\ now = MinST
    /\ cfg = [ts |-> {}, has_valid_inputs |-> FALSE, valid_inputs |-> {},
              uses_scheduler |-> FALSE]
    /\ ins = [k \in Inputs |-> "invalid"]
    /\ started = FALSE
    /\ hasScheduler = FALSE
    /\ sch = EmptySch
    /\ output = [value |-> None, modified |-> FALSE]
    /\ pending = {}
    /\ evald = FALSE
    /\ last = Idle("init")
    /\ PushIdle
    /\ GenIdle
    /\ TsdIdle
    /\ TsdInIdle
    /\ MergeTsdIdle
    /\ BuildIdle
    /\ outs = [o \in ConcreteOuts |-> [value |-> 0, lmt |-> MinDT]]
    /\ refOutput = [value |-> RefNone, lmt |-> MinDT]
    /\ reference_observers = <<"a">>
    /\ bound = [i \in InputIds |-> IF i = "l" THEN "none" ELSE "o1"]
    /\ sample = [i \in InputIds |-> MinDT]
    /\ refInput = NoRefInput
    /\ index = None
    /\ mergeDue = FALSE
    /\ refOp = RefOp("init", RefNone, "none", "none", FALSE, FALSE)

\* Inputs are bound and un-bound before and after the start; outputs tick
\* and the clock moves once the graph runs.
LifeNext ==
    \/ NodeStarts
    \/ BindRefInput
    \/ UnBindRefInput
    \/ (started /\ OutTick)
    \/ (started /\ SetRef)
    \/ (started /\ RefTick)

LifeSpec == LifeInit /\ [][LifeNext]_vars

\* A child reference input is taken with [item] and bound to an output.
ItemBind ==
    /\ \E item \in 1 .. 2, o \in ConcreteOuts :
          LET ri == ri_getitem(refInput, item)
              r == ri_bind_output(ri.items[item], o, refOutput, started, now)
          IN /\ refInput' = [ri EXCEPT !.items[item] = r.refInput]
             /\ pending' = schedule_node(pending, r.calls)
             /\ refOp' = RefOp("item_bind", RefNone, "none", o, FALSE, r.ret)
    /\ UNCHANGED <<now, outs, refOutput, reference_observers, bound, sample, index,
                   mergeDue, refNodeVars>>

\* The owning node reads the value of the REF input with child inputs.
ItemsRead ==
    /\ refInput.items # <<>>
    /\ LET r == ri_value(refInput, refOutput)
       IN /\ refInput' = r.refInput
          /\ refOp' = RefOp("items_read", r.ref, "none", "none", r.raised, FALSE)
    /\ UNCHANGED <<now, pending, outs, refOutput, reference_observers, bound, sample,
                   index, mergeDue, refNodeVars>>

ItemsNext == ItemBind \/ ItemsRead \/ RefTick

\* A REF input that is not bound and has child reference inputs.
ItemsSpec == RefInit /\ [][ItemsNext]_vars

\* -------------------------------------------------- graph builder steps
buildNodeVars == <<now, cfg, ins, started, hasScheduler, sch, output, pending, evald, last,
                   pushVars, genVars, refVars, tsdVars, tsdInVars, mergeTsdVars>>

\* One turn of `while pending_nodes`: the last node is popped, filed under
\* its rank, and the nodes its inputs come from are appended.
GbWalk ==
    /\ gbOp.pc = "walk"
    /\ pending_nodes # <<>>
    /\ LET node == pending_nodes[Len(pending_nodes)]
       IN /\ ranked_nodes' = [ranked_nodes EXCEPT ![node_rank(wiring, node)] = @ \cup {node}]
          /\ pending_nodes' = SubSeq(pending_nodes, 1, Len(pending_nodes) - 1)
                                \o SetToSeq(wiring[node].inputs)
    /\ UNCHANGED <<wiring, node_map, node_builders, edges, gbOp, buildNodeVars>>

\* The walk is over: the ranks are taken from 0 on.
GbWalked ==
    /\ gbOp.pc = "walk"
    /\ pending_nodes = <<>>
    /\ gbOp' = GbOp("build", 0, FALSE)
    /\ UNCHANGED <<wiring, pending_nodes, ranked_nodes, node_map, node_builders, edges,
                   buildNodeVars>>

\* The nodes of rank i that the inner loop has not reached yet.
Unbuilt == {n \in ranked_nodes[gbOp.i] : node_map[n] = -1 /\ ~wiring[n].is_stub}

\* One turn of the inner loop, for any node of the rank's set: a stub is
\* passed over; another node gets the next index, and its builder makes
\* an edge from each node it reads, looked up in node_map (a stub it
\* reads gives no edge; a node without an index is a KeyError).
GbBuild ==
    /\ gbOp.pc = "build"
    /\ ~gbOp.raised
    /\ \E wiring_node \in Unbuilt :
          LET ndx == Len(node_builders)
              srcs == {m \in wiring[wiring_node].inputs : ~wiring[m].is_stub}
          IN IF \E m \in srcs : node_map[m] = -1
             THEN /\ gbOp' = [gbOp EXCEPT !.raised = TRUE]
                  /\ UNCHANGED <<node_map, node_builders, edges>>
             ELSE /\ node_builders' = Append(node_builders, wiring_node)
                  /\ edges' = edges \cup {<<node_map[m], ndx>> : m \in srcs}
                  /\ node_map' = [node_map EXCEPT ![wiring_node] = ndx]
                  /\ UNCHANGED gbOp
    /\ UNCHANGED <<wiring, pending_nodes, ranked_nodes, buildNodeVars>>

\* The rank is done: the next one, or the graph builder is made.
GbNextRank ==
    /\ gbOp.pc = "build"
    /\ ~gbOp.raised
    /\ Unbuilt = {}
    /\ gbOp' = IF gbOp.i < max_rank(wiring)
               THEN [gbOp EXCEPT !.i = @ + 1]
               ELSE [gbOp EXCEPT !.pc = "done"]
    /\ UNCHANGED <<wiring, pending_nodes, ranked_nodes, node_map, node_builders, edges,
                   buildNodeVars>>

BuildInit ==
    /\ now = 0
    /\ cfg = [ts |-> {}, has_valid_inputs |-> FALSE, valid_inputs |-> {},
              uses_scheduler |-> FALSE]
    /\ ins = [k \in Inputs |-> "invalid"]
    /\ started = FALSE
    /\ hasScheduler = FALSE
    /\ sch = EmptySch
    /\ output = [value |-> None, modified |-> FALSE]
    /\ pending = {}
    /\ evald = FALSE
    /\ last = Idle("init")
    /\ PushIdle
    /\ GenIdle
    /\ RefIdle
    /\ TsdIdle
    /\ TsdInIdle
    /\ MergeTsdIdle
    /\ wiring \in Wirings
    /\ pending_nodes = SetToSeq(sink_nodes(wiring))
    /\ ranked_nodes = [r \in 0 .. MaxNodes |-> {}]
    /\ node_map = [n \in WNodes |-> -1]
    /\ node_builders = <<>>
    /\ edges = {}
    /\ gbOp = GbOp("walk", 0, FALSE)

BuildNext == GbWalk \/ GbWalked \/ GbBuild \/ GbNextRank

\* create_graph_builder called with the sink nodes of a wiring graph.
BuildSpec == BuildInit /\ [][BuildNext]_vars

\* ------------------------------------------------------- merge_tsd steps
MaxMerges == 2

mergeNodeVars == <<cfg, ins, started, hasScheduler, sch, output, pending, evald, last,
                   pushVars, genVars, refVars, tsdInVars, buildVars>>

DeltaMaps == [TsdKeys -> Deltas]

\* One evaluation: the input dicts change, the node is evaluated as one of
\* them is modified, and its result is applied to the output dict.
MergeTsdEval ==
    /\ tsdOp.op \in {"init", "end"}
    /\ \E d1 \in DeltaMaps, d2 \in DeltaMaps :
          /\ \A k \in TsdKeys : Applicable(tsd1, k, d1[k]) /\ Applicable(tsd2, k, d2[k])
          /\ \E k \in TsdKeys : d1[k] # "none" \/ d2[k] # "none"
          /\ LET t1 == apply_deltas(tsd1, d1, 1)
                 t2 == apply_deltas(tsd2, d2, 1)
                 r == tsd_value(TsdNow, merge_tsd(t1, t2), after_evaluation, now)
             IN /\ tsd1' = t1
                /\ tsd2' = t2
                /\ TsdStore(r.st)
                /\ after_evaluation' = r.after_evaluation
                /\ tsdOp' = TsdOp("merge", "none", r.st.calls, r.st.raised)
    /\ UNCHANGED <<now, mergeNodeVars>>

\* The end of the evaluation step: the after-evaluation callbacks run, the
\* inputs' per-evaluation sets are over, the engine moves on.
MergeTsdEndStep ==
    /\ tsdOp.op = "merge"
    /\ ~tsdOp.raised
    /\ now < MaxMerges
    /\ IF "_clear_key_changes" \in after_evaluation
       THEN removed_items' = NoItems /\ added_keys' = {}
       ELSE UNCHANGED <<removed_items, added_keys>>
    /\ after_evaluation' = {}
    /\ removedNow' = {}
    /\ tsd1' = [tsd1 EXCEPT !.modified = {}, !.removed = {}]
    /\ tsd2' = [tsd2 EXCEPT !.modified = {}, !.removed = {}]
    /\ now' = now + 1
    /\ tsdOp' = TsdOp("end", "none", <<>>, FALSE)
    /\ UNCHANGED <<ts_values, key_set, child_lmt, mergeNodeVars>>

MergeTsdNext == MergeTsdEval \/ MergeTsdEndStep

\* A merge_tsd node over two dicts of references, for some evaluations.
MergeTsdSpec == TsdInit /\ [][MergeTsdNext]_vars

\* ------------------------------------------------------ TSD input steps
MaxInDrains == 1

tinNodeVars == <<cfg, ins, started, hasScheduler, sch, output, pending, evald, last,
                 pushVars, genVars, refVars, tsdVars, mergeTsdVars, buildVars>>

TinNow == InSt(tin, douts, tinCbs, FALSE)

TinStore(S) ==
    /\ tin' = S.tin
    /\ douts' = S.douts
    /\ tinCbs' = S.cbs

\* input.bind_output(o): a first bind (to the output called A) or a
\* re-bind.
InBind ==
    /\ ~tinOp.raised
    /\ \E o \in DictOuts :
          LET S == in_do_bind_output(TinNow, o)
          IN /\ tin.output = "none" => o = "A"
             /\ TinStore(S)
             /\ tinOp' = TinOp("bind", o, "none", tin.output, S.raised)
    /\ UNCHANGED <<now, tinNodeVars>>

\* input.un_bind_output() on a bound input.
InUnBind ==
    /\ ~tinOp.raised
    /\ tin.key_set # "none"
    /\ LET S == in_do_un_bind_output(TinNow)
       IN /\ TinStore(S)
          /\ tinOp' = TinOp("un_bind", tin.output, "none", tin.output, S.raised)
    /\ UNCHANGED <<now, tinNodeVars>>

\* output.get_or_create(k) for a new key: a child that has no value.
OutCreate ==
    /\ ~tinOp.raised
    /\ \E o \in DictOuts, k \in TsdKeys :
          /\ k \in WrittenKeys[o]
          /\ douts[o].ts_values[k] = NoChild
          /\ LET S == out_create(TinNow, o, k)
             IN /\ TinStore(S)
                /\ tinOp' = TinOp("create", o, k, tin.output, S.raised)
    /\ UNCHANGED <<now, tinNodeVars>>

\* output.value = {k: v_}, v_ a scalar or REMOVE for a key that is there.
OutAssign ==
    /\ ~tinOp.raised
    /\ \E o \in DictOuts, k \in TsdKeys, v_ \in TsdScalars \cup {REMOVE} :
          /\ k \in WrittenKeys[o]
          /\ v_ = REMOVE => douts[o].ts_values[k] # NoChild
          /\ LET S == out_assign(TinNow, o, k, v_)
             IN /\ TinStore(S)
                /\ tinOp' = TinOp(IF v_ = REMOVE THEN "remove" ELSE "assign",
                                  o, k, tin.output, S.raised)
    /\ UNCHANGED <<now, tinNodeVars>>

\* A child of the input is replaced by an input that belongs elsewhere
\* (its parent_input is not this dict).
Transplant ==
    /\ ~tinOp.raised
    /\ \E k \in TsdKeys :
          /\ tin.ts_values[k].present
          /\ ~tin.ts_values[k].transplanted
          /\ tin' = [tin EXCEPT !.ts_values[k].transplanted = TRUE]
          /\ tinOp' = TinOp("transplant", tin.output, k, tin.output, FALSE)
    /\ UNCHANGED <<now, douts, tinCbs, tinNodeVars>>

\* The end of an evaluation step: the callbacks run (_reset_prev,
\* _clear_key_changes) and are forgotten, the key sets' deltas are
\* cleared and the engine time moves on, so nothing is modified yet.
InEndStep ==
    /\ ~tinOp.raised
    /\ now < MaxInDrains
    /\ tin' = [tin EXCEPT
                 !.prev_output = IF "_reset_prev" \in tinCbs THEN "none" ELSE @,
                 !.removed_items = IF "_clear_key_changes" \in tinCbs THEN NoIns ELSE @,
                 !.ts_values = [k \in TsdKeys |-> [@[k] EXCEPT !.sampled = FALSE]]]
    /\ douts' = [o \in DictOuts |-> [douts[o] EXCEPT !.ticked = {}, !.removedKs = {}]]
    /\ tinCbs' = {}
    /\ now' = now + 1
    /\ tinOp' = TinOp("end", tin.output, "none", tin.output, FALSE)
    /\ UNCHANGED tinNodeVars

TsdInInit ==
    /\ now = 0
    /\ cfg = [ts |-> {}, has_valid_inputs |-> FALSE, valid_inputs |-> {},
              uses_scheduler |-> FALSE]
    /\ ins = [k \in Inputs |-> "invalid"]
    /\ started = TRUE
    /\ hasScheduler = FALSE
    /\ sch = EmptySch
    /\ output = [value |-> None, modified |-> FALSE]
    /\ pending = {}
    /\ evald = FALSE
    /\ last = Idle("init")
    /\ PushIdle
    /\ GenIdle
    /\ RefIdle
    /\ TsdIdle
    /\ MergeTsdIdle
    /\ BuildIdle
    /\ douts = [o \in DictOuts |-> NoOut]
    /\ \E a \in BOOLEAN, p \in BOOLEAN :
          tin = [output |-> "none", key_set |-> "none", prev_output |-> "none",
                 ts_values |-> NoIns, removed_items |-> NoIns,
                 active |-> a, has_peer |-> p]
    /\ tinCbs = {}
    /\ tinOp = TinOp("init", "none", "none", "none", FALSE)

TsdInNext == InBind \/ OutCreate \/ OutAssign \/ InEndStep

\* A dict input bound and re-bound to dict outputs that change.
TsdInSpec == TsdInInit /\ [][TsdInNext]_vars

TransplantNext == InBind \/ InUnBind \/ OutAssign \/ Transplant

\* Children transplanted and the input un-bound, within one evaluation.
TransplantSpec == TsdInInit /\ [][TransplantNext]_vars

\* ---------------------------------------------------- reference claims
\* What an ordinary input shows of the output it is bound to: it reads as
\* modified when it was bound or its output ticked, and has the output's
\* value.
InLmt(i, b, sm, os) ==
    IF b[i] = "none" \/ os[b[i]].lmt < sm[i] THEN sm[i] ELSE os[b[i]].lmt

InValue(i, b, os) == IF b[i] = "none" THEN 0 ELSE os[b[i]].value

Observers == {reference_observers[k] : k \in 1 .. Len(reference_observers)}

ObserverParts ==
    Observers \cup
        UNION {{Children(i)[k] : k \in 1 .. Len(Children(i))} : i \in Observers}

\* The binding reference r asks of input i, in the bindings b.
Rebound(r, i, b) ==
    CASE r.kind = "peer" -> b[i] = r.output
      [] r.kind = "invalid" -> b[i] = "none"
      [] OTHER -> \A k \in 1 .. Len(r.items) :
                     k <= Len(Children(i)) => b[Children(i)[k]] = r.items[k].output

\* C15: after a reference r is assigned to the REF output (and no bind was
\* rejected), the output holds r and is modified at the engine time, every
\* reference observer is bound as r says (to r.output, child by child, or
\* un-bound for the empty reference) and the inputs that are no observers
\* keep their bindings.
C15_RefAssigned ==
    [][(refOp'.op = "set" /\ refOp'.ref # RefNone /\ ~refOp'.raised) =>
        /\ refOutput'.value = refOp'.ref
        /\ refOutput'.lmt = now
        /\ \A i \in Observers : Rebound(refOp'.ref, i, bound')
        /\ \A j \in InputIds \ ObserverParts : bound'[j] = bound[j]
      ]_vars

\* C15's case: a list of two references was assigned; the observing TSL
\* input has its children on the two outputs and input a, no observer,
\* is where it was.
C15_Witness ==
    /\ refOp.op = "set"
    /\ ~refOp.raised
    /\ refOp.ref.kind = "items"
    /\ Len(refOp.ref.items) = 2
    /\ reference_observers = <<"l">>
    /\ bound["l1"] = "o2"
    /\ bound["l2"] = "o1"
    /\ bound["a"] = "o1"
    /\ refOutput.lmt = now

\* C16: when the REF output is re-pointed at engine time t from one
\* concrete output to another that has a value, every observer has
\* last_modified_time t afterwards and shows the new target's value, also
\* when the new target did not tick at t.
C16_RepointTicksObservers ==
    [][(/\ refOp'.op = "set"
        /\ ~refOp'.raised
        /\ refOutput.value.kind = "peer"
        /\ refOp'.ref.kind = "peer"
        /\ refOp'.ref.output # refOutput.value.output
        /\ outs[refOp'.ref.output].lmt # MinDT)
          => \A i \in Observers :
                /\ InLmt(i, bound', sample', outs') = now
                /\ InValue(i, bound', outs') = outs[refOp'.ref.output].value
      ]_vars

\* C16's case: the REF output was re-pointed from one output to another
\* that last ticked at an earlier time.
C16_Witness ==
    /\ refOp.op = "set"
    /\ ~refOp.raised
    /\ refOp.ref.kind = "peer"
    /\ refOp.target \in ConcreteOuts
    /\ refOp.target # refOp.ref.output
    /\ outs[refOp.ref.output].lmt \notin {MinDT, now}
    /\ \A i \in Observers : InLmt(i, bound, sample, outs) = now

\* C17 (as claimed): bind_input raises, with no binding changed, whenever
\* the shape the reference stands for is not the shape of the input,
\* however the reference was made.
C17_Claim ==
    [][(/\ refOp'.op = "bind_input"
        /\ refOp'.ref.kind # "invalid"
        /\ RefShape(refOp'.ref) # InClass(refOp'.input))
          => refOp'.raised /\ bound' = bound
      ]_vars

\* C18 (as claimed): binding the REF input to a concrete output O makes
\* its value the peer reference to O, makes it valid, returns False and
\* schedules the owning node at the engine time; bound to the REF output,
\* the input's value is that output's reference value.
C18_Claim ==
    [][/\ (refOp'.op = "ri_bind" /\ refOp'.target \in ConcreteOuts) =>
            /\ refInput'.value = RefFromOutput(refOp'.target)
            /\ ri_valid(refInput', refOutput')
            /\ refOp'.ret = FALSE
            /\ now \in pending'
       /\ (refOp'.op = "ri_read" /\ refOp'.target = "R") =>
            /\ ~refOp'.raised
            /\ refOp'.ref = refOutput.value
      ]_vars

\* C19: downstream of merge_ref every observer follows the selected
\* upstream: when the node has run for a new index the observer is bound
\* to the upstream selected and, if that has a value, ticks with it at
\* that time; afterwards a tick of the selected upstream reaches it and a
\* tick of the other upstream changes nothing for it.
C19_MergeFollowsSelected ==
    [][/\ (refOp'.op = "merge") =>
            \A i \in Observers :
               /\ bound'[i] = Ups[index[1]]
               /\ outs[Ups[index[1]]].lmt # MinDT =>
                     /\ InLmt(i, bound', sample', outs') = now
                     /\ InValue(i, bound', outs') = outs[Ups[index[1]]].value
       /\ (refOp'.op = "tick" /\ index # None /\ ~mergeDue) =>
            \A i \in Observers :
               IF refOp'.target = Ups[index[1]]
               THEN /\ InLmt(i, bound', sample', outs') = now
                    /\ InValue(i, bound', outs') = outs'[refOp'.target].value
               ELSE /\ InLmt(i, bound', sample', outs') = InLmt(i, bound, sample, outs)
                    /\ InValue(i, bound', outs') = InValue(i, bound, outs)
      ]_vars

\* C19's case: the second upstream is selected and the first one ticked;
\* the observer is on the second and did not tick.
C19_Witness ==
    /\ refOp.op = "tick"
    /\ refOp.target = "o1"
    /\ index = <<2>>
    /\ ~mergeDue
    /\ "a" \in Observers
    /\ bound["a"] = "o2"
    /\ outs["o1"].lmt = now
    /\ outs["o2"].lmt # MinDT
    /\ InLmt("a", bound, sample, outs) < now

\* ------------------------------------------------------ TSD output claims
\* C21 (as claimed): get_or_create(k) for an absent key makes a child for
\* k, adds k to the key set, records k in added_keys and calls
\* on_key_added(k) once on every key observer; for a key that is present it
\* changes nothing.
C21_Claim ==
    [][tsdOp'.op = "get_or_create" =>
        LET k == tsdOp'.key
        IN IF ts_values[k] = NoChild
           THEN /\ ts_values'[k] # NoChild
                /\ k \in key_set'
                /\ k \in added_keys'
                /\ tsdOp'.calls = NotifyKey("on_key_added", k)
           ELSE /\ UNCHANGED <<ts_values, key_set, added_keys, removed_items>>
                /\ tsdOp'.calls = <<>>
      ]_vars

\* C22: del tsd[k] for a key that is present moves its child into
\* removed_items, takes k out of the key set and calls on_key_removed(k)
\* once on every key observer, the other keys staying as they were; for a
\* key that is not present it raises KeyError, with the children, the key
\* set and removed_items unchanged and no observer called.
C22_DelItem ==
    [][tsdOp'.op = "del" =>
        LET k == tsdOp'.key
        IN IF ts_values[k] # NoChild
           THEN /\ ~tsdOp'.raised
                /\ removed_items' = [removed_items EXCEPT ![k] = ts_values[k]]
                /\ ts_values' = [ts_values EXCEPT ![k] = NoChild]
                /\ key_set' = key_set \ {k}
                /\ tsdOp'.calls = NotifyKey("on_key_removed", k)
           ELSE /\ tsdOp'.raised
                /\ UNCHANGED <<ts_values, key_set, removed_items>>
                /\ tsdOp'.calls = <<>>
      ]_vars

\* C22's case: a key that had a value was deleted while the other key
\* stays; both observers were told.
C22_Witness ==
    /\ tsdOp.op = "del"
    /\ ~tsdOp.raised
    /\ removed_items[tsdOp.key] \in TsdScalars
    /\ key_set = TsdKeys \ {tsdOp.key}
    /\ Len(tsdOp.calls) = Len(KeyObservers)

\* C23: the members of the key set are exactly the keys that have a
\* child, whatever was assigned, created and deleted.
C23_KeySetInSync == key_set = {k \in TsdKeys : ts_values[k] # NoChild}

\* C23's case: one key was created and deleted again, the other is there.
C23_Witness ==
    /\ key_set = {"k2"}
    /\ removed_items["k1"] # NoChild
    /\ ts_values["k2"] # NoChild

\* C24 (as claimed): delta_value has the child's value for every child
\* modified at the engine time, REMOVE for every other key removed in the
\* current evaluation, and no other key; a key removed and set again in
\* one evaluation is there with its new child's value.
C24_Claim ==
    \A k \in TsdKeys :
        delta_value(TsdNow, k, now) =
            IF ts_values[k] # NoChild /\ child_lmt[k] = now THEN ts_values[k]
            ELSE IF k \in removedNow THEN REMOVE
            ELSE NoChild

\* ------------------------------------------------------- TSD input claims
\* C25 (as claimed): when an evaluation step has ended, a dict input bound
\* to a dict output has the output's value, key for key, also when the
\* output holds a child that has no value.
C25_Claim ==
    (tinOp.op = "end" /\ tin.output # "none") =>
        \A k \in TsdKeys : in_value(tin, douts, k) = tsd_out_value(douts[tin.output], k)

\* C26: once the input is bound, and after every later change of the
\* outputs' keys, its key set is bound to the output's key set, it has a
\* child for exactly the keys of the output, each bound to the output's
\* child, and it is a key observer of the output; a re-bind moves the
\* children it had into removed_items.
C26_BoundInputMirrorsOutput ==
    [][/\ (tin'.output # "none" /\ ~tinOp'.raised) =>
            /\ tin'.key_set = tin'.output
            /\ InKeys(tin'.ts_values) = OutKeys(douts'[tin'.output])
            /\ \A k \in InKeys(tin'.ts_values) : tin'.ts_values[k].bound = tin'.output
            /\ douts'[tin'.output].observers = 1
            /\ \A o \in DictOuts \ {tin'.output} : douts'[o].observers = 0
       /\ (tinOp'.op = "bind" /\ ~tinOp'.raised /\ InKeys(tin.ts_values) # {}) =>
            tin'.removed_items = tin.ts_values
      ]_vars

\* C26's case: the input was re-bound from A, where it had a child for
\* k1, to B, and B then got the key k2.
C26_Witness ==
    /\ tinOp.op = "assign"
    /\ tinOp.out = "B"
    /\ tin.output = "B"
    /\ tin.prev_output = "A"
    /\ tin.removed_items["k1"].present
    /\ ~tin.ts_values["k1"].present
    /\ tin.ts_values["k2"].bound = "B"

\* A key is added to the output the input is bound to.
KeyAddedStep ==
    /\ tinOp'.op \in {"create", "assign"}
    /\ tinOp'.out = tin.output
    /\ douts[tin.output].ts_values[tinOp'.key] = NoChild

\* C27 (as claimed): when a key is added to the output the input is bound
\* to, the input gets a child for the key, bound to the output's child,
\* and the child is active whenever the input is active.
C27_Claim ==
    [][KeyAddedStep =>
        /\ tin'.ts_values[tinOp'.key].present
        /\ tin'.ts_values[tinOp'.key].bound = tin.output
        /\ tin.active => tin'.ts_values[tinOp'.key].active
      ]_vars

\* C27 (amended): the child is made and bound; it is active exactly when
\* the input is active and has no peer.
C27_KeyAddedChild ==
    [][KeyAddedStep =>
        /\ tin'.ts_values[tinOp'.key].present
        /\ tin'.ts_values[tinOp'.key].bound = tin.output
        /\ tin'.ts_values[tinOp'.key].active = (tin.active /\ ~tin.has_peer)
      ]_vars

\* C27's case: an active input without a peer got an active child for a
\* key its output gained.
C27_Witness ==
    /\ tinOp.op = "assign"
    /\ tinOp.out = tin.output
    /\ tin.active
    /\ ~tin.has_peer
    /\ tin.ts_values[tinOp.key].active
    /\ tin.ts_values[tinOp.key].bound = tin.output

Transplanted(m) == {k \in TsdKeys : m[k].present /\ m[k].transplanted}

\* C28 (as claimed): un-binding an input that holds transplanted children,
\* or removing a transplanted child's key from the output, completes
\* without error; the transplanted children stay among the live children,
\* un-bound, and only the other children go to removed_items.
C28_Claim ==
    [][/\ (tinOp'.op = "un_bind" /\ Transplanted(tin.ts_values) # {}) =>
            /\ ~tinOp'.raised
            /\ \A k \in InKeys(tin.ts_values) :
                  IF tin.ts_values[k].transplanted
                  THEN /\ tin'.ts_values[k].present
                       /\ tin'.ts_values[k].bound = "none"
                       /\ ~tin'.removed_items[k].present
                  ELSE /\ ~tin'.ts_values[k].present
                       /\ tin'.removed_items[k].present
       /\ (tinOp'.op = "remove" /\ tinOp'.out = tin.output
             /\ tinOp'.key \in Transplanted(tin.ts_values)) =>
            /\ ~tinOp'.raised
            /\ tin'.ts_values[tinOp'.key].present
            /\ tin'.ts_values[tinOp'.key].bound = "none"
            /\ ~tin'.removed_items[tinOp'.key].present
      ]_vars

\* The input is re-bound from the output it has to tinOp'.out.
RebindStep == tinOp'.op = "bind" /\ ~tinOp'.raised /\ tin.output # "none"

\* A later time: nothing of the input was bound in this evaluation.
SettledStep ==
    /\ tinOp'.op \in {"create", "assign", "remove"}
    /\ tin'.output # "none"
    /\ tin'.prev_output = "none"
    /\ \A k \in TsdKeys : ~tin'.ts_values[k].sampled

\* What the input reports of its output's own changes.
OutputChange(o, k) ==
    IF k \in o.removedKs THEN REMOVE
    ELSE IF k \in o.ticked THEN o.ts_values[k]
    ELSE NoChild

\* What the merged dict is to hold for key k.
Merged(k) ==
    IF k \in tsd1.present THEN RefValue(1, tsd1, k)
    ELSE IF k \in tsd2.present THEN RefValue(2, tsd2, k)
    ELSE NoChild

\* C29: after every evaluation of merge_tsd the output dict has key k
\* exactly when tsd1 or tsd2 has it, and output[k] is tsd1[k]'s reference
\* when tsd1 has k and tsd2[k]'s otherwise; a key removed from tsd1 that
\* tsd2 still has is switched to tsd2[k], and the output's delta has
\* REMOVE for k only when k has left both.
C29_MergeTsd ==
    (tsdOp.op \in {"merge", "end"}) =>
        /\ ~tsdOp.raised
        /\ \A k \in TsdKeys :
              /\ ts_values[k] = Merged(k)
              /\ (k \in key_set) = (k \in tsd1.present \cup tsd2.present)
              /\ (delta_value(TsdNow, k, now) = REMOVE) =
                    (k \in (tsd1.removed \cup tsd2.removed) \ (tsd1.present \cup tsd2.present))

\* C29's case: k1 was removed from tsd1 while tsd2 has it: the output
\* keeps k1, now with tsd2[k1]'s reference, and emits it.
C29_Witness ==
    /\ tsdOp.op = "merge"
    /\ "k1" \in tsd1.removed
    /\ "k1" \in tsd2.present \ tsd2.modified
    /\ ts_values["k1"] = RefValue(2, tsd2, "k1")
    /\ removed_items["k1"] = NoChild
    /\ delta_value(TsdNow, "k1", now) = RefValue(2, tsd2, "k1")

\* C30 (as claimed): at a re-bind from A to B the input's delta has B's
\* value for every key of B and REMOVE for every key of A that B has not,
\* and nothing else; at later times it has B's changes only.
C30_Claim ==
    [][/\ RebindStep =>
            \A k \in TsdKeys :
               in_delta_value(tin', douts', k) =
                  IF k \in OutKeys(douts[tinOp'.out])
                  THEN (IF douts[tinOp'.out].ts_values[k] = NoValue
                        THEN NoValue ELSE douts[tinOp'.out].ts_values[k])
                  ELSE IF k \in OutKeys(douts[tin.output]) THEN REMOVE
                  ELSE NoChild
       /\ SettledStep =>
            \A k \in TsdKeys :
               in_delta_value(tin', douts', k) = OutputChange(douts'[tin'.output], k)
      ]_vars

\* C30 (amended): at the re-bind the delta has B's value for every key of
\* B whose child has a value, REMOVE for every key of A that B has not, and
\* nothing else; at later times it has B's changes only.
C30_RebindDelta ==
    [][/\ RebindStep =>
            \A k \in TsdKeys :
               in_delta_value(tin', douts', k) =
                  IF douts[tinOp'.out].ts_values[k] \in TsdScalars
                  THEN douts[tinOp'.out].ts_values[k]
                  ELSE IF k \in OutKeys(douts[tin.output]) \ OutKeys(douts[tinOp'.out])
                  THEN REMOVE
                  ELSE NoChild
       /\ SettledStep =>
            \A k \in TsdKeys :
               in_delta_value(tin', douts', k) = OutputChange(douts'[tin'.output], k)
      ]_vars

\* C30's case: the input was re-bound from A, which has k1 and k2, to B,
\* which has k2 only: its delta has REMOVE for k1 and B's value for k2.
C30_Witness ==
    /\ tinOp.op = "bind"
    /\ tinOp.old = "A"
    /\ tinOp.out = "B"
    /\ OutKeys(douts["A"]) = TsdKeys
    /\ in_delta_value(tin, douts, "k1") = REMOVE
    /\ in_delta_value(tin, douts, "k2") \in TsdScalars

\* The nodes create_graph_builder reaches from the sink nodes.
RECURSIVE Upstream(_, _)
Upstream(w, S) ==
    LET T == S \cup UNION {w[n].inputs : n \in S}
    IN IF T = S THEN S ELSE Upstream(w, T)

Reached == Upstream(wiring, sink_nodes(wiring))

Indexed == {n \in Reached : ~wiring[n].is_stub}

EntryTimes(s) == {s.events[k][1] : k \in 1 .. Len(s.events)}

\* C32 (as claimed): after every step, when the scheduler holds an entry
\* later than the engine time, the graph holds the node for a time that
\* is not later than the scheduler's earliest entry; and an evaluation at
\* the time of an entry sees scheduled = true.
C32_Claim ==
    [][/\ (hasScheduler' /\ \E t \in EntryTimes(sch') : t > now')
            => \E p \in pending' : \A t \in EntryTimes(sch') : p <= t
       /\ (EvalStep /\ hasScheduler /\ now \in EntryTimes(sch))
            => last'.scheduled
      ]_vars

\* C33 (as claimed): in every state of the scheduler each tag recorded in
\* _tags has its entry (recorded time, tag) in _scheduled_events, and no
\* call of schedule or un_schedule raises.
C33_Claim ==
    /\ \A g \in DOMAIN sch.tags :
          \E k \in 1 .. Len(sch.events) : sch.events[k] = <<sch.tags[g], EvTag(g)>>
    /\ last.op \in {"schedule", "un_schedule"} => ~last.raised

\* C34 (as claimed): bind_input of a composite reference with N child
\* references on an input with M # N children raises and binds nothing;
\* the first min(N, M) children are never bound silently.
C34_Claim ==
    [][(/\ refOp'.op = "bind_input"
        /\ refOp'.ref.kind = "items"
        /\ Len(refOp'.ref.items) # Len(Children(refOp'.input)))
          => (refOp'.raised /\ bound' = bound)]_vars

\* C35 (as claimed): when a REF input that holds a reference it made from
\* a non-REF output is un-bound, its value becomes empty and its sample
\* time is the engine time if the owning node is started and MIN_DT
\* otherwise; un-bound on a node that is not started, it reads as
\* modified at no engine time.
C35_Claim ==
    [][(refOp'.op = "ri_un_bind" /\ refInput.value # RefNone)
          => /\ refInput'.value = RefNone
             /\ refInput'.sample = (IF started THEN now ELSE MinDT)
             /\ ~started =>
                   \A t \in MinST .. MaxRefTime : ~ri_modified(refInput', refOutput', t)
      ]_vars

\* C39 (as claimed): every read of the value of an un-bound REF input
\* with child inputs gives the composite of the children's values at the
\* time of the read, also after a child was re-bound.
C39_Claim ==
    [][(/\ refOp'.op = "items_read"
        /\ refInput.output = "none"
        /\ \A k \in 1 .. Len(refInput.items) : refInput.items[k].value # RefNone)
          => /\ ~refOp'.raised
             /\ refOp'.ref = RefFromItems([k \in 1 .. Len(refInput.items) |->
                                              refInput.items[k].value])
      ]_vars

\* C40 (as claimed): a REF input of a started node that is bound to a
\* non-REF output is modified at the engine time of the binding, with
\* that time as its last modified time; until it is bound again or
\* un-bound its last modified time stays and it is modified at no other
\* time, whatever the outputs do.
C40_Claim ==
    [][/\ (started /\ refOp'.op = "ri_bind" /\ refOp'.target \in ConcreteOuts)
            => /\ ri_modified(refInput', refOutput', now')
               /\ ri_last_modified_time(refInput', refOutput') = now
       /\ (refOp'.op \notin {"ri_bind", "ri_un_bind"} /\ refInput.value # RefNone)
            => /\ ri_last_modified_time(refInput', refOutput')
                    = ri_last_modified_time(refInput, refOutput)
               /\ ri_modified(refInput', refOutput', now')
                    = (ri_last_modified_time(refInput, refOutput) = now')
      ]_vars

\* C36 (as claimed): an assignment of a mapping to the dict output that
\* changed the key membership, also one that KeyError ended part-way,
\* leaves the clearing of removed_items and added_keys registered as an
\* after-evaluation callback; KeyError is raised only when a key that is
\* absent was to be removed, and then nothing after that entry is applied.
C36_Claim ==
    [][tsdOp'.op = "value" =>
          /\ key_set' # key_set => "_clear_key_changes" \in after_evaluation'
          /\ removed_items' # removed_items => "_clear_key_changes" \in after_evaluation'
      ]_vars

\* C37 (as claimed): when a key that the bound dict input has a child
\* for, its own or a transplanted one, is removed from the output, the
\* input holds the removed child for it; no later step of the evaluation
\* loses the removed child of a key that removed_keys() still reports, so
\* that removed_values() and removed_items() do not raise KeyError; and
\* the end of the evaluation leaves the input's removed items empty.
C37_Claim ==
    [][~tinOp'.raised =>
          /\ (/\ tinOp'.op = "remove"
              /\ tinOp'.out = tin.key_set
              /\ tin.prev_output = "none"
              /\ tin.ts_values[tinOp'.key].present)
                => tin'.removed_items[tinOp'.key].present
          /\ tinOp'.op # "end" =>
                \A k \in in_removed_keys(tin, douts) \cap in_removed_keys(tin', douts') :
                    tin.removed_items[k].present => tin'.removed_items[k].present
          /\ tinOp'.op = "end" => tin'.removed_items = NoIns
      ]_vars

\* C38 (as claimed): whatever binds, re-binds and un-binds were made, the
\* dict input is among the key observers of no output but the one it is
\* bound to, and there once, so that no other output tells it of keys.
C38_Claim ==
    ~tinOp.raised =>
        \A o \in DictOuts :
            douts[o].observers = (IF tin.key_set = o THEN 1 ELSE 0)

\* C20 (as claimed): at the end of every evaluation step, the callbacks
\* having run, the dict output has no added keys and no removed items,
\* whatever assignments, get_or_create calls and deletions the step made.
C20_Claim == tsdOp.op = "end" => (added_keys = {} /\ removed_items = NoItems)

\* C11 (as claimed): no value is appended to the queue after stop has set
\* stopped, under any interleaving of stop with running sender calls.
C11_Claim ==
    [][stopped => Len(sent') = Len(sent)]_vars

\* A push node is quiet when the engine is not between clearing the flag
\* and the end of eval, and no sender has appended without yet setting
\* the flag.
PushQuiet == epc = "idle" /\ \A s \in Senders : spc[s] # "appended"

\* C12 (as claimed): whenever a value is queued after an eval or an
\* enqueue, the push-has-pending-values flag is set; no queued value is
\* stranded with the flag clear.
C12_Claim ==
    (PushQuiet /\ ~stopped /\ Values(queue) # <<>>) => pushPending

====
